---------------------------- MODULE Spec2Model ----------------------------
(***************************************************************************)
(* A model of the useGesture composable (src/src/composables/useGesture.ts) *)
(* of vue-mediapipe-worker: the frame pump (startPredictionLoop), the      *)
(* camera life cycle (startCamera, stopCamera, setVideoSource), the worker *)
(* protocol (initWorker, WORKER_LOGIC, worker.onmessage) and the gesture   *)
(* interpreter (handleResult).                                             *)
(*                                                                         *)
(* Coordinates are integers in thousandths of the normalized image space   *)
(* (0..1000 stands for 0.0..1.0); times are milliseconds.  The log list,   *)
(* the fps counter and activeDelegate are display-only and are not part of *)
(* the state modelled here.                                                *)
(***************************************************************************)
EXTENDS Integers, Sequences, FiniteSets, TLC

\* ------------------------------------------------------------------ bounds
\* Loop closures that may be alive (scheduled or suspended) at one time.
MaxLoops == 1
\* Workers that may exist, terminated or not, at one time.
MaxWorkers == 1
\* Camera streams that may be live or being acquired at one time.
MaxStreams == 1
\* initWorker calls that may be suspended in fetch at one time.
MaxFetch == 1
\* Messages that may be under way to and from one worker at one time.
MaxQueue == 2
\* The clock stops after this many clock steps.
MaxClockSteps == 3
\* The clock of the short presses stops after this many clock steps.
MaxClickClockSteps == 5
\* The hand scales studied go up to this many thousandths, in these steps.
MaxScale == 200
ScaleStep == 5
\* The significand of the floating-point numbers studied has this many bits,
\* and their values spread over this many binades below 1.
Precision == 6
Binades == 3
\* Loop closures and streams at once in the study of overlapping restarts.
MaxOverlapLoops == 2
MaxOverlapStreams == 2
\* The index tips studied lie on a grid of this many thousandths.
TipStep == 125
\* addLog is called at most this many times.
MaxLogCalls == 120

\* --------------------------------------------------------- program constants
PINCH_THRESH == 50
refSize == 100
HoldMs == 200
DoubleClickMs == 300
LogCap == 50
ClockStepMs == HoldMs \div 2

\* ------------------------------------------------------------ detection data
\* The landmark indices handleResult reads: wrist, thumb tip, index tip,
\* middle-finger MCP, middle tip.
LandmarkIdx == {0, 4, 8, 9, 12}

Wrist == <<500, 900>>
Mcp == <<500, 800>>
IndexTip == <<500, 500>>
ThumbFar == <<300, 600>>
ThumbNear == <<520, 510>>
MidFar == <<700, 300>>
MidNearFar == <<310, 610>>
MidNearNear == <<530, 520>>

\* A hand is a partial function from landmark indices to points.
FullHand(thumb, mid) ==
    [k \in LandmarkIdx |->
        CASE k = 0 -> Wrist
          [] k = 9 -> Mcp
          [] k = 8 -> IndexTip
          [] k = 4 -> thumb
          [] OTHER -> mid]

Without(hand, i) == [k \in (DOMAIN hand) \ {i} |-> hand[k]]

OpenHand == FullHand(ThumbFar, MidFar)
PinchHand == FullHand(ThumbNear, MidFar)
MiddlePinchHand == FullHand(ThumbFar, MidNearFar)
\* An open hand whose index tip is elsewhere.
TipAside == <<600, 450>>

MovedHand == [FullHand(ThumbFar, MidFar) EXCEPT ![8] = TipAside]

BothPinchHand == FullHand(ThumbNear, MidNearNear)

\* A worker reply's result: null, or the simpleResult of WORKER_LOGIC.detect.
\* hasLandmarks / hasHandednesses are FALSE when the field is undefined.
NullResult ==
    [isNull |-> TRUE, hasLandmarks |-> FALSE, landmarks |-> <<>>,
     hasHandednesses |-> FALSE, handednesses |-> <<>>, gestures |-> <<>>]

Detection(lms, hds) ==
    [isNull |-> FALSE, hasLandmarks |-> TRUE, landmarks |-> lms,
     hasHandednesses |-> TRUE, handednesses |-> hds, gestures |-> <<>>]

NoHandedness(r) == [r EXCEPT !.hasHandednesses = FALSE, !.handednesses = <<>>]
NoLandmarks(r) == [r EXCEPT !.hasLandmarks = FALSE, !.landmarks = <<>>]


\* ----------------------------------------------------------------- viewport
\* window.innerWidth and window.innerHeight of the modelled page.
InnerWidth == 1000
InnerHeight == 500

\* ------------------------------------------------------------- configuration
HandPreference == {"Left", "Right", "Both"}
SmoothingProfile == {"Fast", "Balanced", "Smooth"}

BUFFER_SIZE_MAP(s) ==
    CASE s = "Fast" -> 2
      [] s = "Balanced" -> 5
      [] s = "Smooth" -> 10
      [] OTHER -> 5

InitConfig ==
    [hand |-> "Both", smoothing |-> "Balanced", roi |-> 800, videoSource |-> ""]

\* ------------------------------------------------------------- gesture state
EmptyLandmarks == [k \in {} |-> <<0, 0>>]

InitGestureState ==
    [cursor |-> [x |-> 0, y |-> 0, active |-> FALSE, mode |-> "none"],
     gestures |-> <<>>,
     events |-> {},
     debugInfo |-> [rootPos |-> <<0, 0>>, handScale |-> 1000, roi |-> 800,
                    effectiveRoi |-> 800, landmarks |-> EmptyLandmarks,
                    handedness |-> "Unknown"]]

\* clickTimer is 0 for null and a positive handle once setTimeout has run.
InitState ==
    [clickCount |-> 0, clickTimer |-> 0, dragStartTime |-> 0,
     isDragging |-> FALSE, isMiddleDragging |-> FALSE]

\* ------------------------------------------------------------ arithmetic
Min(a, b) == IF a < b THEN a ELSE b
Max(a, b) == IF a > b THEN a ELSE b

RECURSIVE SqrtIn(_, _, _)
SqrtIn(n, lo, hi) ==
    IF lo >= hi THEN lo
    ELSE LET mid == (lo + hi + 1) \div 2
         IN  IF mid * mid <= n THEN SqrtIn(n, mid, hi) ELSE SqrtIn(n, lo, mid - 1)

\* The squared distances between the landmark points of the hands above,
\* with their roots: a table, so that a root is computed once.
ModelPoints ==
    {Wrist, Mcp, IndexTip, ThumbFar, ThumbNear, MidFar, MidNearFar, MidNearNear}

SqrtTable ==
    [n \in {(p[1] - q[1]) * (p[1] - q[1]) + (p[2] - q[2]) * (p[2] - q[2]) :
               p \in ModelPoints, q \in ModelPoints} |-> SqrtIn(n, 0, 1500)]

\* Math.sqrt, rounded down to a thousandth.
Sqrt(n) == IF n \in DOMAIN SqrtTable THEN SqrtTable[n] ELSE SqrtIn(n, 0, 1500)

SqDist(p1, p2) ==
    (p1[1] - p2[1]) * (p1[1] - p2[1]) + (p1[2] - p2[2]) * (p1[2] - p2[2])

RECURSIVE SumX(_)
SumX(buf) == IF buf = <<>> THEN 0 ELSE Head(buf)[1] + SumX(Tail(buf))
RECURSIVE SumY(_)
SumY(buf) == IF buf = <<>> THEN 0 ELSE Head(buf)[2] + SumY(Tail(buf))

\* calculateDistance: 1 (1000 thousandths) when a point is missing.
calculateDistance(hand, i, j) ==
    IF i \notin DOMAIN hand \/ j \notin DOMAIN hand THEN 1000
    ELSE Sqrt(SqDist(hand[i], hand[j]))

\* -------------------------------------------------------------------- addLog
\* A faulty addLog, which adds the entry at the end.
addLog_AtEnd(logs, entry) ==
    LET all == Append(logs, entry)
    IN  SubSeq(all, 1, Min(LogCap, Len(all)))

\* addLog: [entry, ...logs.value].slice(0, 50).
addLog(logs, entry) ==
    LET all == <<entry>> \o logs
    IN  SubSeq(all, 1, Min(LogCap, Len(all)))

\* ------------------------------------------------------------ handleResult
\* A faulty resetState, which leaves the events of the previous frame in
\* place: the zero-hands property must tell it from the real one.
resetState_KeepsEvents(gs) ==
    [gs EXCEPT !.cursor.active = FALSE,
               !.gestures = <<>>,
               !.debugInfo.landmarks = EmptyLandmarks]

\* resetState: the "Standardized Reset" closure of handleResult.
resetState(gs) ==
    [gs EXCEPT !.cursor.active = FALSE,
               !.gestures = <<>>,
               !.events = {"IDLE"},
               !.debugInfo.landmarks = EmptyLandmarks]

\* h[0]?.categoryName of one handedness entry.
CategoryName(h) == IF Len(h) > 0 THEN h[1] ELSE "undefined"

\* handednesses.findIndex(label === config.hand); indices count from 1 and
\* 0 stands for "not found" (-1).
findIndex(handednesses, pref) ==
    LET hits == {i \in 1..Len(handednesses) : CategoryName(handednesses[i]) = pref}
    IN  IF hits = {} THEN 0 ELSE CHOOSE i \in hits : \A j \in hits : i <= j

\* Step 1 of handleResult: 0 when no hand qualifies, else the index (from 1)
\* of the selected hand.
targetHandIndex(result, cfg) ==
    IF cfg.hand # "Both" THEN findIndex(result.handednesses, cfg.hand) ELSE 1

\* A faulty effective ROI, without the cap at 1.0.
EffectiveRoi_NoCap(roi, wristToMiddle) ==
    LET distFactor == (wristToMiddle * 1000) \div refSize
    IN  (roi * Min(1200, Max(500, distFactor))) \div 1000

\* Effective ROI: config.roi * min(1.2, max(0.5, wristToMiddle / refSize)),
\* capped at 1.0.
EffectiveRoi(roi, wristToMiddle) ==
    LET distFactor == (wristToMiddle * 1000) \div refSize
        effRoi == (roi * Min(1200, Max(500, distFactor))) \div 1000
    IN  IF effRoi > 1000 THEN 1000 ELSE effRoi

\* A faulty cursor mapping, without the clamp.
MapAxis_NoClamp(raw, effRoi) ==
    ((2 * raw - (1000 - effRoi)) * 1000) \div (2 * effRoi)

\* Cursor mapping of one axis: (raw - (0.5 - effRoi/2)) / effRoi, clamped.
MapAxis(raw, effRoi) ==
    LET mapped == ((2 * raw - (1000 - effRoi)) * 1000) \div (2 * effRoi)
    IN  Max(0, Min(1000, mapped))

\* The mapped point of an index tip: X is mirrored.
MapCursor(indexTip, effRoi) ==
    <<MapAxis(1000 - indexTip[1], effRoi), MapAxis(indexTip[2], effRoi)>>

\* A faulty push, which never drops the oldest position.
PushPosition_NoShift(buf, p, smoothing) == Append(buf, p)

\* positionBuffer.push(p); if (length > bufferSize) shift().
PushPosition(buf, p, smoothing) ==
    LET pushed == Append(buf, p)
    IN  IF Len(pushed) > BUFFER_SIZE_MAP(smoothing) THEN Tail(pushed) ELSE pushed

\* A faulty middle-pinch branch, which leaves the cursor mode as it was.
MiddlePinch_KeepsMode(st, timer, mode) ==
    [st |-> [st EXCEPT !.isMiddleDragging = TRUE],
     timer |-> timer,
     events |-> IF ~st.isMiddleDragging THEN {"DRAG_MIDDLE_START"}
                ELSE {"DRAG_MIDDLE_MOVE"},
     mode |-> mode]

\* A faulty middle-pinch branch, which starts the rotation on every step.
MiddlePinch_AlwaysStart(st, timer, mode) ==
    [st |-> [st EXCEPT !.isMiddleDragging = TRUE],
     timer |-> timer,
     events |-> {"DRAG_MIDDLE_START"},
     mode |-> "rotate"]

\* The middle-pinch branch of the state machine: rotate.
MiddlePinch(st, timer, mode) ==
    [st |-> [st EXCEPT !.isMiddleDragging = TRUE],
     timer |-> timer,
     events |-> IF ~st.isMiddleDragging THEN {"DRAG_MIDDLE_START"}
                ELSE {"DRAG_MIDDLE_MOVE"},
     mode |-> "rotate"]

\* Faulty short-press branches: one reports the second release as a click
\* and a double click at once, one never counts the first release.
ShortPress_ClickAndDouble(st0, t, timer, ev0) ==
    IF st0.clickCount + 1 = 1
    THEN [st |-> [st0 EXCEPT !.dragStartTime = 0, !.clickCount = 1,
                             !.clickTimer = 1],
          timer |-> t + DoubleClickMs,
          events |-> ev0 \cup {"CLICK"}, mode |-> "none"]
    ELSE [st |-> [st0 EXCEPT !.dragStartTime = 0, !.clickCount = 0],
          timer |-> IF st0.clickTimer # 0 THEN 0 ELSE timer,
          events |-> ev0 \cup {"CLICK", "DOUBLE_CLICK"}, mode |-> "none"]

ShortPress_NeverDouble(st0, t, timer, ev0) ==
    [st |-> [st0 EXCEPT !.dragStartTime = 0, !.clickCount = 0,
                        !.clickTimer = 1],
     timer |-> t + DoubleClickMs,
     events |-> ev0 \cup {"CLICK"}, mode |-> "none"]

\* The "Short press logic" of the state machine: the release, at time t, of
\* a pinch that did not become a drag.
ShortPress(st0, t, timer, ev0) ==
    IF st0.clickCount + 1 = 1
    THEN [st |-> [st0 EXCEPT !.dragStartTime = 0, !.clickCount = 1,
                             !.clickTimer = 1],
          timer |-> t + DoubleClickMs,
          events |-> ev0 \cup {"CLICK"}, mode |-> "none"]
    ELSE [st |-> [st0 EXCEPT !.dragStartTime = 0, !.clickCount = 0],
          timer |-> IF st0.clickTimer # 0 THEN 0 ELSE timer,
          events |-> ev0 \cup {"DOUBLE_CLICK"}, mode |-> "none"]

\* A faulty end of a drag, which leaves the hold timer running.
DragEnd_KeepsTimer(st0, timer, ev0) ==
    [st |-> [st0 EXCEPT !.isDragging = FALSE],
     timer |-> timer,
     events |-> ev0 \cup {"DRAG_END"}, mode |-> "none"]

\* The release of a drag.
DragEnd(st0, timer, ev0) ==
    [st |-> [st0 EXCEPT !.isDragging = FALSE, !.dragStartTime = 0],
     timer |-> timer,
     events |-> ev0 \cup {"DRAG_END"}, mode |-> "none"]

\* Step 3 of handleResult, the gesture state machine.  timer is the time at
\* which the pending setTimeout callback is due, 0 when none is pending.
GestureMachine(isPinch, isMiddlePinch, t, st, timer, mode) ==
    IF isMiddlePinch
    THEN MiddlePinch(st, timer, mode)
    ELSE
      LET ev0 == IF st.isMiddleDragging THEN {"DRAG_MIDDLE_END"} ELSE {}
          st0 == [st EXCEPT !.isMiddleDragging = FALSE]
      IN
      IF isPinch
      THEN
        IF ~st0.isDragging
        THEN LET start == IF st0.dragStartTime = 0 THEN t ELSE st0.dragStartTime
                 held == t - start > HoldMs
             IN  [st |-> [st0 EXCEPT !.dragStartTime = start,
                                     !.isDragging = held],
                  timer |-> timer,
                  events |-> IF held THEN ev0 \cup {"DRAG_START"} ELSE ev0,
                  mode |-> mode]
        ELSE [st |-> st0, timer |-> timer,
              events |-> ev0 \cup {"DRAG_MOVE"}, mode |-> "drag"]
      ELSE
        IF st0.isDragging
        THEN DragEnd(st0, timer, ev0)
        ELSE IF st0.dragStartTime > 0
        THEN ShortPress(st0, t, timer, ev0)
        ELSE [st |-> st0, timer |-> timer, events |-> ev0, mode |-> "none"]

\* A faulty idle block, which reports a pointer move without a cursor.
PointerEvent_AlwaysMove(active) == {"POINTER_MOVE"}

\* The event of the idle block: no pinch and no drag under way.
PointerEvent(active) == IF active THEN {"POINTER_MOVE"} ELSE {"IDLE"}

\* handleResult from "Debug Info / ROI" on, for the selected hand idx, which
\* has landmarks 0 and 9.
ProcessHand(result, idx, t, cfg, gs, st, buf, timer) ==
    LET hand == result.landmarks[idx]
        handLabel == IF idx <= Len(result.handednesses)
                        /\ Len(result.handednesses[idx]) > 0
                     THEN result.handednesses[idx][1] ELSE "Unknown"
        wristToMiddle == Sqrt(SqDist(hand[0], hand[9]))
        effRoi == EffectiveRoi(cfg.roi, wristToMiddle)
        newDebugInfo == [rootPos |-> hand[0], handScale |-> wristToMiddle,
                         roi |-> cfg.roi, effectiveRoi |-> effRoi,
                         landmarks |-> hand, handedness |-> handLabel]
        hasTip == 8 \in DOMAIN hand
        buf1 == IF hasTip
                THEN PushPosition(buf, MapCursor(hand[8], effRoi), cfg.smoothing)
                ELSE buf
        cursor1 == IF hasTip
                   THEN [gs.cursor EXCEPT
                           !.x = ((SumX(buf1) \div Len(buf1)) * InnerWidth) \div 1000,
                           !.y = ((SumY(buf1) \div Len(buf1)) * InnerHeight) \div 1000,
                           !.active = TRUE]
                   ELSE gs.cursor
        isPinch == calculateDistance(hand, 8, 4) < PINCH_THRESH
        isMiddlePinch == calculateDistance(hand, 12, 4) < PINCH_THRESH
        m == GestureMachine(isPinch, isMiddlePinch, t, st, timer, cursor1.mode)
        idle == ~isPinch /\ ~isMiddlePinch
                /\ ~m.st.isDragging /\ ~m.st.isMiddleDragging
        currentEvents == IF idle
                         THEN m.events \cup PointerEvent(cursor1.active)
                         ELSE m.events
        cats == IF idx <= Len(result.gestures) THEN result.gestures[idx] ELSE <<>>
        gestureName == IF Len(cats) > 0 THEN cats[1] ELSE "None"
    IN  [threw |-> FALSE,
         gs |-> [cursor |-> [cursor1 EXCEPT !.mode = IF idle THEN "none" ELSE m.mode],
                 gestures |-> <<gestureName>>,
                 events |-> currentEvents,
                 debugInfo |-> newDebugInfo],
         st |-> m.st,
         buf |-> buf1,
         timer |-> m.timer]

\* handleResult(result) at time t.  threw is TRUE when the call ends in a
\* TypeError (a property read on undefined); nothing has been assigned by then.
handleResult(result, t, cfg, gs, st, buf, timer) ==
    LET same == [threw |-> FALSE, gs |-> gs, st |-> st, buf |-> buf, timer |-> timer]
        thrown == [same EXCEPT !.threw = TRUE]
        reset == [same EXCEPT !.gs = resetState(gs)]
    IN
    IF result.isNull THEN same
    ELSE IF ~result.hasLandmarks \/ Len(result.landmarks) = 0 THEN reset
    ELSE IF cfg.hand # "Both" /\ ~result.hasHandednesses THEN thrown
    ELSE
      LET idx == targetHandIndex(result, cfg)
      IN  IF idx = 0 THEN reset
          ELSE IF idx > Len(result.landmarks) THEN reset
          ELSE IF ~result.hasHandednesses THEN thrown
          ELSE IF 0 \notin DOMAIN result.landmarks[idx]
                  \/ 9 \notin DOMAIN result.landmarks[idx] THEN thrown
          ELSE ProcessHand(result, idx, t, cfg, gs, st, buf, timer)

\* -------------------------------------------------------------------- state
VARIABLES
    isCameraActive,   \* isCameraActive.value
    isWorkerReady,    \* isWorkerReady.value
    isBusyRef,        \* isBusyRef.value
    workerRef,        \* workerRef.value: 0 for null, else the worker's number
    requestRef,       \* requestRef.value: 0 for null, else the loop whose
                      \* requestAnimationFrame handle was stored last
    config,           \* the reactive config object
    gestureState,     \* gestureState.value
    State,            \* the state machine variables (STATE in the source)
    positionBuffer,   \* the smoothing buffer
    clickTimeout,     \* when the pending setTimeout callback is due, 0: none
    now,              \* performance.now()
    loops,            \* each loop closure: "free", "sched" (its
                      \* requestAnimationFrame callback is pending), "await"
                      \* (suspended in createImageBitmap)
    srcObject,        \* whether videoRef.value.srcObject holds a stream
    metadataPending,  \* whether that stream's loadedmetadata is still to fire
    gumPending,       \* startCamera calls suspended in getUserMedia
    liveStreams,      \* camera streams whose tracks have not been stopped
    workers,          \* each worker: its life cycle, the messages posted to
                      \* it, WORKER_LOGIC's state and its replies under way
    fetchPending,     \* initWorker calls suspended in fetch
    last,             \* history: the last operation on the interpreter (a
                      \* reply handled, stopCamera, a setter, the timer), the
                      \* last detection handled and whether handling failed
    tracked,          \* history: whether the last operation that assigned
                      \* cursor.active found a qualifying hand
    hold,             \* history: when the index-pinch hold under way began
                      \* (0: none) and where its last step stood against
                      \* the hold time
    pinchSince,       \* history: when the run of steps with index pinch
                      \* under way began (0: none)
    calc,             \* the arguments and the value of the one function a
                      \* specification of a single function studies
    logHead           \* logs.value[0], the newest entry of the log

vars ==
    <<isCameraActive, isWorkerReady, isBusyRef, workerRef, requestRef, config,
      gestureState, State, positionBuffer, clickTimeout, now, loops,
      srcObject, metadataPending, gumPending, liveStreams, workers,
      fetchPending, last, tracked, hold, pinchSince, calc, logHead>>

pumpVars ==
    <<isCameraActive, isWorkerReady, isBusyRef, workerRef, requestRef, loops,
      srcObject, metadataPending, gumPending, liveStreams, workers,
      fetchPending>>

interpVars == <<gestureState, State, positionBuffer, clickTimeout>>

\* The loop closures of the run: those the initial state provides for.
Loops == DOMAIN loops
Workers == 1..MaxWorkers

NoWorker ==
    [st |-> "none", inbox |-> <<>>, initRunning |-> FALSE,
     gestureRecognizer |-> FALSE, outbox |-> <<>>]

NoOp == [op |-> "none", result |-> NullResult, threw |-> FALSE]

Did(op) == [last EXCEPT !.op = op, !.threw = FALSE]

NoHold == [since |-> 0, phase |-> "none"]

NoCalc == [fn |-> "none"]

\* The newest log entry; NoLog stands for an empty log.
Log(message, type) == [message |-> message, type |-> type]

NoLog == Log("none", "none")

Constructed ==
    /\ isCameraActive = FALSE
    /\ isWorkerReady = FALSE
    /\ isBusyRef = FALSE
    /\ workerRef = 0
    /\ requestRef = 0
    /\ config = InitConfig
    /\ gestureState = InitGestureState
    /\ State = InitState
    /\ positionBuffer = <<>>
    /\ clickTimeout = 0
    /\ now = ClockStepMs
    /\ loops = [l \in 1..MaxLoops |-> "free"]
    /\ srcObject = FALSE
    /\ metadataPending = FALSE
    /\ gumPending = 0
    /\ liveStreams = 0
    /\ workers = [w \in Workers |-> NoWorker]
    /\ fetchPending = 0
    /\ last = NoOp
    /\ tracked = FALSE
    /\ hold = NoHold
    /\ pinchSince = 0
    /\ logHead = NoLog

Init ==
    /\ Constructed
    /\ calc = NoCalc

\* ------------------------------------------------------------ the frame pump
\* cancelAnimationFrame(requestRef.value): a handle whose callback has run
\* or was cancelled cancels nothing.
CancelFrame(lps, req) ==
    IF req # 0 /\ lps[req] = "sched" THEN [lps EXCEPT ![req] = "free"] ELSE lps

\* The loop closure of startPredictionLoop, from its entry to its first
\* suspension or its end.  videoReady is videoRef.value.readyState >= 2.
loop(l, active, busy, lps, req, videoReady) ==
    IF ~active
    THEN [busy |-> busy, loops |-> [lps EXCEPT ![l] = "free"], requestRef |-> req]
    ELSE IF workerRef # 0 /\ isWorkerReady /\ ~busy /\ videoReady
    THEN [busy |-> TRUE, loops |-> [lps EXCEPT ![l] = "await"], requestRef |-> req]
    ELSE [busy |-> busy, loops |-> [lps EXCEPT ![l] = "sched"], requestRef |-> l]

FreeLoops(lps) == {l \in Loops : lps[l] = "free"}

\* startPredictionLoop(): cancels the stored frame request, then runs the
\* first tick of a new loop closure.
startPredictionLoop(active, busy, lps, req, videoReady) ==
    LET cancelled == CancelFrame(lps, req)
        l == CHOOSE f \in FreeLoops(cancelled) : \A g \in FreeLoops(cancelled) : f <= g
    IN  loop(l, active, busy, cancelled, req, videoReady)

\* What readyState >= 2 may be when a tick reads it.
VideoReady == IF srcObject /\ ~metadataPending THEN BOOLEAN ELSE {FALSE}

\* A requestAnimationFrame callback runs: one tick of loop l.
RafFire(l) ==
    /\ loops[l] = "sched"
    /\ \E videoReady \in VideoReady :
         LET r == loop(l, isCameraActive, isBusyRef, loops, requestRef, videoReady)
         IN  /\ isBusyRef' = r.busy
             /\ loops' = r.loops
             /\ requestRef' = r.requestRef
    /\ UNCHANGED <<last, tracked, hold, pinchSince, calc, logHead>>
    /\ UNCHANGED <<isCameraActive, isWorkerReady, workerRef, config, srcObject,
                   metadataPending, gumPending, liveStreams, workers,
                   fetchPending, now>>
    /\ UNCHANGED interpVars

\* workerRef.value.postMessage(detect): a terminated worker receives nothing.
PostDetect(ws, w) ==
    IF ws[w].st = "alive"
    THEN [ws EXCEPT ![w].inbox = Append(@, "detect")]
    ELSE ws

\* createImageBitmap settles and the suspended tick of loop l goes on: it
\* posts the frame (ok) or clears the busy flag (the catch), and requests the
\* next frame.
BitmapDone(l, ok) ==
    /\ loops[l] = "await"
    /\ ok /\ workers[workerRef].st = "alive" =>
         Len(workers[workerRef].inbox) + Len(workers[workerRef].outbox) < MaxQueue
    /\ workers' = IF ok THEN PostDetect(workers, workerRef) ELSE workers
    /\ isBusyRef' = IF ok THEN isBusyRef ELSE FALSE
    /\ requestRef' = l
    /\ loops' = [loops EXCEPT ![l] = "sched"]
    /\ UNCHANGED <<last, tracked, hold, pinchSince, calc, logHead>>
    /\ UNCHANGED <<isCameraActive, isWorkerReady, workerRef, config, srcObject,
                   metadataPending, gumPending, liveStreams, fetchPending, now>>
    /\ UNCHANGED interpVars

\* ---------------------------------------------------------------- the camera
\* startCamera(), up to its await of getUserMedia, while fewer than cap
\* streams are live or asked for.
StartCameraWithin(cap) ==
    /\ ~isCameraActive
    /\ gumPending + liveStreams < cap
    /\ gumPending' = gumPending + 1
    /\ UNCHANGED <<last, tracked, hold, pinchSince, calc, logHead>>
    /\ UNCHANGED <<isCameraActive, isWorkerReady, isBusyRef, workerRef,
                   requestRef, config, loops, srcObject, metadataPending,
                   liveStreams, workers, fetchPending, now>>
    /\ UNCHANGED interpVars

StartCamera == StartCameraWithin(MaxStreams)

\* A faulty settling of getUserMedia, which attaches a stream after a
\* failure too.
GetUserMediaDone_AttachesAnyway(ok) ==
    /\ gumPending > 0
    /\ gumPending' = gumPending - 1
    /\ liveStreams' = IF ok THEN liveStreams + 1 ELSE liveStreams
    /\ srcObject' = TRUE
    /\ metadataPending' = TRUE
    /\ logHead' = IF ok THEN Log("Camera started", "success")
                  ELSE Log("Camera Error", "error")
    /\ UNCHANGED <<last, tracked, hold, pinchSince, calc>>
    /\ UNCHANGED <<isCameraActive, isWorkerReady, isBusyRef, workerRef,
                   requestRef, config, loops, workers, fetchPending, now>>
    /\ UNCHANGED interpVars

\* getUserMedia settles: the stream is attached (ok) or the error is logged.
GetUserMediaDone(ok) ==
    /\ gumPending > 0
    /\ gumPending' = gumPending - 1
    /\ liveStreams' = IF ok THEN liveStreams + 1 ELSE liveStreams
    /\ srcObject' = IF ok THEN TRUE ELSE srcObject
    /\ metadataPending' = IF ok THEN TRUE ELSE metadataPending
    /\ logHead' = IF ok THEN Log("Camera started", "success")
                  ELSE Log("Camera Error", "error")
    /\ UNCHANGED <<last, tracked, hold, pinchSince, calc>>
    /\ UNCHANGED <<isCameraActive, isWorkerReady, isBusyRef, workerRef,
                   requestRef, config, loops, workers, fetchPending, now>>
    /\ UNCHANGED interpVars

\* videoRef.value.onloadedmetadata.
LoadedMetadata ==
    /\ metadataPending
    /\ FreeLoops(CancelFrame(loops, requestRef)) # {}
    /\ metadataPending' = FALSE
    /\ isCameraActive' = TRUE
    /\ \E videoReady \in BOOLEAN :
         LET r == startPredictionLoop(TRUE, FALSE, loops, requestRef, videoReady)
         IN  /\ isBusyRef' = r.busy
             /\ loops' = r.loops
             /\ requestRef' = r.requestRef
    /\ UNCHANGED <<last, tracked, hold, pinchSince, calc, logHead>>
    /\ UNCHANGED <<isWorkerReady, workerRef, config, srcObject, gumPending,
                   liveStreams, workers, fetchPending, now>>
    /\ UNCHANGED interpVars

\* A faulty stopCamera, which leaves the cursor active.
stopCamera_KeepsCursor(lps, req, gs) ==
    [loops |-> CancelFrame(lps, req),
     requestRef |-> 0,
     liveStreams |-> IF srcObject THEN liveStreams - 1 ELSE liveStreams,
     gs |-> gs]

\* The assignments of stopCamera(), on the values given.
stopCamera(lps, req, gs) ==
    [loops |-> CancelFrame(lps, req),
     requestRef |-> 0,
     liveStreams |-> IF srcObject THEN liveStreams - 1 ELSE liveStreams,
     gs |-> [gs EXCEPT !.cursor.active = FALSE]]

StopCamera ==
    LET r == stopCamera(loops, requestRef, gestureState)
    IN  /\ loops' = r.loops
        /\ requestRef' = r.requestRef
        /\ liveStreams' = r.liveStreams
        /\ srcObject' = FALSE
        /\ metadataPending' = FALSE
        /\ isCameraActive' = FALSE
        /\ isBusyRef' = FALSE
        /\ gestureState' = r.gs
        /\ last' = Did("stopCamera")
        /\ tracked' = FALSE
        /\ logHead' = Log("Camera stopped", "info")
        /\ UNCHANGED <<hold, pinchSince, calc>>
        /\ UNCHANGED <<isWorkerReady, workerRef, config, gumPending, workers,
                       fetchPending, now, State, positionBuffer, clickTimeout>>

\* A faulty setVideoSource, which stops an active camera and does not start
\* it again.
SetVideoSource_NoRestart(id) ==
    /\ config' = [config EXCEPT !.videoSource = id]
    /\ IF isCameraActive
       THEN LET r == stopCamera(loops, requestRef, gestureState)
            IN  /\ loops' = r.loops
                /\ requestRef' = r.requestRef
                /\ liveStreams' = r.liveStreams
                /\ srcObject' = FALSE
                /\ metadataPending' = FALSE
                /\ isCameraActive' = FALSE
                /\ isBusyRef' = FALSE
                /\ gestureState' = r.gs
                /\ UNCHANGED gumPending
       ELSE UNCHANGED <<loops, requestRef, liveStreams, srcObject,
                        metadataPending, isCameraActive, isBusyRef,
                        gestureState, gumPending>>
    /\ last' = IF isCameraActive THEN Did("stopCamera") ELSE last
    /\ tracked' = IF isCameraActive THEN FALSE ELSE tracked
    /\ logHead' = IF isCameraActive THEN Log("Camera stopped", "info")
                  ELSE Log("Video source changed. Restarting...", "info")
    /\ UNCHANGED <<hold, pinchSince, calc>>
    /\ UNCHANGED <<isWorkerReady, workerRef, workers, fetchPending, now, State,
                   positionBuffer, clickTimeout>>

\* setVideoSource(id): records the source; an active camera is stopped and
\* started again (startCamera runs up to its await of getUserMedia), while
\* fewer than cap streams are live or asked for.
SetVideoSourceWithin(id, cap) ==
    /\ config' = [config EXCEPT !.videoSource = id]
    /\ IF isCameraActive
       THEN LET r == stopCamera(loops, requestRef, gestureState)
            IN  /\ gumPending + r.liveStreams < cap
                /\ loops' = r.loops
                /\ requestRef' = r.requestRef
                /\ liveStreams' = r.liveStreams
                /\ srcObject' = FALSE
                /\ metadataPending' = FALSE
                /\ isCameraActive' = FALSE
                /\ isBusyRef' = FALSE
                /\ gestureState' = r.gs
                /\ gumPending' = gumPending + 1
       ELSE UNCHANGED <<loops, requestRef, liveStreams, srcObject,
                        metadataPending, isCameraActive, isBusyRef,
                        gestureState, gumPending>>
    /\ last' = IF isCameraActive THEN Did("stopCamera") ELSE last
    /\ tracked' = IF isCameraActive THEN FALSE ELSE tracked
    /\ logHead' = IF isCameraActive THEN Log("Camera stopped", "info")
                  ELSE Log("Video source changed. Restarting...", "info")
    /\ UNCHANGED <<hold, pinchSince, calc>>
    /\ UNCHANGED <<isWorkerReady, workerRef, workers, fetchPending, now, State,
                   positionBuffer, clickTimeout>>

SetVideoSource(id) == SetVideoSourceWithin(id, MaxStreams)

\* ---------------------------------------------------------------- the worker
\* initWorker(), up to its await of fetch: the current worker is terminated
\* (its pending messages are discarded) and the busy flag is cleared.
InitWorkerCall ==
    /\ fetchPending < MaxFetch
    /\ workers' = IF workerRef # 0
                  THEN [workers EXCEPT ![workerRef] = [NoWorker EXCEPT !.st = "terminated"]]
                  ELSE workers
    /\ isBusyRef' = FALSE
    /\ fetchPending' = fetchPending + 1
    /\ logHead' = Log("Fetching MediaPipe library...", "info")
    /\ UNCHANGED <<last, tracked, hold, pinchSince, calc>>
    /\ UNCHANGED <<isCameraActive, isWorkerReady, workerRef, requestRef, config,
                   loops, srcObject, metadataPending, gumPending, liveStreams,
                   now>>
    /\ UNCHANGED interpVars

\* Worker numbers free for new Worker(): never used, or terminated and no
\* longer referenced once workerRef is reassigned.
FreeWorkers ==
    {w \in Workers : workers[w].st = "none"
                     \/ (workers[w].st = "terminated" /\ w = workerRef)}

\* initWorker() after the fetch: a new worker is created, stored in
\* workerRef and sent 'init' (ok), or the setup error is logged.
InitWorkerFetched(ok) ==
    /\ fetchPending > 0
    /\ fetchPending' = fetchPending - 1
    /\ IF ok
       THEN /\ FreeWorkers # {}
            /\ LET w == CHOOSE f \in FreeWorkers : \A g \in FreeWorkers : f <= g
                   cleared == [v \in Workers |->
                                 IF workers[v].st = "terminated" THEN NoWorker
                                 ELSE workers[v]]
               IN  /\ workers' = [cleared EXCEPT ![w] =
                                    [NoWorker EXCEPT !.st = "alive",
                                                     !.inbox = <<"init">>]]
                   /\ workerRef' = w
       ELSE UNCHANGED <<workers, workerRef>>
    /\ logHead' = IF ok THEN Log("Compiling worker...", "info")
                  ELSE Log("Setup Error", "error")
    /\ UNCHANGED <<last, tracked, hold, pinchSince, calc>>
    /\ UNCHANGED <<isCameraActive, isWorkerReady, isBusyRef, requestRef, config,
                   loops, srcObject, metadataPending, gumPending, liveStreams,
                   now>>
    /\ UNCHANGED interpVars

workerUnchanged ==
    /\ UNCHANGED <<isCameraActive, isWorkerReady, isBusyRef, workerRef,
                   requestRef, config, loops, srcObject, metadataPending,
                   gumPending, liveStreams, fetchPending, now>>
    /\ UNCHANGED interpVars

\* self.onmessage of the worker takes an 'init' message: init() runs up to
\* its first await.
WorkerInitStart(w) ==
    /\ workers[w].st = "alive"
    /\ workers[w].inbox # <<>>
    /\ Head(workers[w].inbox) = "init"
    /\ workers' = [workers EXCEPT ![w].inbox = Tail(@), ![w].initRunning = TRUE]
    /\ UNCHANGED <<last, tracked, hold, pinchSince, calc, logHead>>
    /\ workerUnchanged

\* init() ends: the recognizer is created and 'init-success' posted (ok), or
\* the catch posts 'init-error'.
WorkerInitDone(w, ok) ==
    /\ workers[w].st = "alive"
    /\ workers[w].initRunning
    /\ workers' = [workers EXCEPT
                     ![w].initRunning = FALSE,
                     ![w].gestureRecognizer = IF ok THEN TRUE ELSE @,
                     ![w].outbox = Append(@, IF ok THEN "init-success"
                                             ELSE "init-error")]
    /\ UNCHANGED <<last, tracked, hold, pinchSince, calc, logHead>>
    /\ workerUnchanged

\* A faulty detect(): without a recognizer the frame is dropped unanswered.
WorkerDetect_SilentWithoutRecognizer(w, ok) ==
    /\ workers[w].st = "alive"
    /\ workers[w].inbox # <<>>
    /\ Head(workers[w].inbox) = "detect"
    /\ workers' = [workers EXCEPT
                     ![w].inbox = Tail(@),
                     ![w].outbox = IF workers[w].gestureRecognizer
                                   THEN Append(@, IF ok THEN "result"
                                                  ELSE "result-null")
                                   ELSE @]
    /\ UNCHANGED <<last, tracked, hold, pinchSince, calc, logHead>>
    /\ workerUnchanged

\* detect(imageBitmap) in the worker: a null result without a recognizer or
\* when recognizeForVideo throws (~ok), else the detection.
WorkerDetect(w, ok) ==
    /\ workers[w].st = "alive"
    /\ workers[w].inbox # <<>>
    /\ Head(workers[w].inbox) = "detect"
    /\ workers' = [workers EXCEPT
                     ![w].inbox = Tail(@),
                     ![w].outbox = Append(@, IF workers[w].gestureRecognizer /\ ok
                                             THEN "result" ELSE "result-null")]
    /\ UNCHANGED <<last, tracked, hold, pinchSince, calc, logHead>>
    /\ workerUnchanged

\* --- history of cursor.active, stated on the detection data alone ---
\* The hands of a detection that satisfy the hand preference pref: every
\* hand under Both, else the hands labelled pref.
QualifyingHands(result, pref) ==
    IF result.isNull \/ ~result.hasLandmarks THEN {}
    ELSE {i \in 1..Len(result.landmarks) :
            \/ pref = "Both"
            \/ /\ result.hasHandednesses
               /\ i <= Len(result.handednesses)
               /\ Len(result.handednesses[i]) > 0
               /\ result.handednesses[i][1] = pref}

Qualifies(result, pref) == QualifyingHands(result, pref) # {}

FirstQualifying(result, pref) ==
    CHOOSE i \in QualifyingHands(result, pref) :
        \A j \in QualifyingHands(result, pref) : i <= j

\* A detection on which handling cannot complete: hands without the
\* handedness list, or a selected hand without landmark 0 or 9.
Unprocessable(result, pref) ==
    /\ ~result.isNull
    /\ result.hasLandmarks
    /\ result.landmarks # <<>>
    /\ \/ ~result.hasHandednesses
       \/ /\ Qualifies(result, pref)
          /\ ~({0, 9} \subseteq
                  DOMAIN result.landmarks[FirstQualifying(result, pref)])

\* Whether a qualifying hand is being tracked after a reply: a null reply,
\* an unprocessable detection and a qualifying hand without its index tip
\* leave it as it was.
TrackedAfter(result, pref, before) ==
    IF result.isNull \/ Unprocessable(result, pref) THEN before
    ELSE IF ~Qualifies(result, pref) THEN FALSE
    ELSE IF 8 \in DOMAIN result.landmarks[FirstQualifying(result, pref)]
         THEN TRUE
    ELSE before

\* --- history of the index-pinch hold, stated on the detection data alone ---
\* The detection reaches the gesture state machine of handleResult.
Processed(result, pref) ==
    /\ Qualifies(result, pref)
    /\ ~Unprocessable(result, pref)

SelectedHand(result, pref) == result.landmarks[FirstQualifying(result, pref)]

IsPinchOf(hand) == calculateDistance(hand, 8, 4) < PINCH_THRESH

IsMiddlePinchOf(hand) == calculateDistance(hand, 12, 4) < PINCH_THRESH

\* A step of an index-pinch hold: index pinch and no middle pinch.
IndexHold(result, pref) ==
    /\ Processed(result, pref)
    /\ IsPinchOf(SelectedHand(result, pref))
    /\ ~IsMiddlePinchOf(SelectedHand(result, pref))

\* The hold after a reply handled at time t: a null reply is no step; any
\* other detection than a step of the hold ends it.  phase tells whether
\* the hold has not yet lasted HoldMs at this step ("before"), lasts HoldMs
\* for the first time ("first"), or did so at an earlier step ("after").
HoldAfter(result, pref, t, h) ==
    IF result.isNull THEN h
    ELSE IF ~IndexHold(result, pref) THEN NoHold
    ELSE LET since == IF h.since = 0 THEN t ELSE h.since
         IN  [since |-> since,
              phase |-> IF t - since < HoldMs THEN "before"
                        ELSE IF h.phase \in {"first", "after"} THEN "after"
                        ELSE "first"]

\* --- history of the index pinch, stated on the detection data alone ---
\* When the run of steps with index pinch began, after a reply handled at
\* time t: a null reply and an unprocessable detection are no step; a
\* detection without a qualifying hand, or with the index pinch open, ends
\* the run.
PinchSinceAfter(result, pref, t, since) ==
    IF result.isNull \/ Unprocessable(result, pref) THEN since
    ELSE IF Processed(result, pref) /\ IsPinchOf(SelectedHand(result, pref))
    THEN (IF since = 0 THEN t ELSE since)
    ELSE 0

\* The 'result' branch of worker.onmessage on the main thread, for the
\* result given: handleResult(result); isBusyRef.value = false.  When
\* handleResult throws, the handler ends there.
OnResult(result) ==
    LET h == handleResult(result, now, config, gestureState, State,
                          positionBuffer, clickTimeout)
    IN  /\ gestureState' = h.gs
        /\ State' = h.st
        /\ positionBuffer' = h.buf
        /\ clickTimeout' = h.timer
        /\ isBusyRef' = IF h.threw THEN isBusyRef ELSE FALSE
        /\ last' = [op |-> IF result.isNull THEN "null" ELSE "result",
                    result |-> IF result.isNull THEN last.result ELSE result,
                    threw |-> h.threw]
        /\ tracked' = TrackedAfter(result, config.hand, tracked)
        /\ hold' = HoldAfter(result, config.hand, now, hold)
        /\ pinchSince' = PinchSinceAfter(result, config.hand, now, pinchSince)
        /\ UNCHANGED <<calc, logHead>>

\* worker.onmessage on the main thread takes the next reply of worker w.
\* The content of a detection is the recognizer's: any member of results.
WorkerMessage(w, results) ==
    /\ workers[w].st = "alive"
    /\ workers[w].outbox # <<>>
    /\ workers' = [workers EXCEPT ![w].outbox = Tail(@)]
    /\ LET type == Head(workers[w].outbox)
       IN  CASE type = "init-success" ->
                  /\ isWorkerReady' = TRUE
                  /\ isBusyRef' = FALSE
                  /\ logHead' = Log("Initialized", "success")
                  /\ UNCHANGED <<last, tracked, hold, pinchSince, calc>>
                  /\ UNCHANGED interpVars
             [] type = "init-error" ->
                  /\ isBusyRef' = FALSE
                  /\ logHead' = Log("Init Failed", "error")
                  /\ UNCHANGED <<last, tracked, hold, pinchSince, calc>>
                  /\ UNCHANGED <<isWorkerReady, gestureState, State,
                                 positionBuffer, clickTimeout>>
             [] type = "result-null" ->
                  /\ OnResult(NullResult)
                  /\ UNCHANGED isWorkerReady
             [] OTHER ->
                  /\ \E result \in results : OnResult(result)
                  /\ UNCHANGED isWorkerReady
    /\ UNCHANGED <<isCameraActive, workerRef, requestRef, config, loops,
                   srcObject, metadataPending, gumPending, liveStreams,
                   fetchPending, now>>

\* ---------------------------------------------------- configuration and time
setHandPreference(h) ==
    /\ config' = [config EXCEPT !.hand = h]
    /\ last' = Did("setHandPreference")
    /\ logHead' = Log("Hand preference set", "info")
    /\ UNCHANGED <<tracked, hold, pinchSince, calc>>
    /\ UNCHANGED pumpVars
    /\ UNCHANGED interpVars
    /\ UNCHANGED now

setSmoothing(p) ==
    /\ config' = [config EXCEPT !.smoothing = p]
    /\ last' = Did("setSmoothing")
    /\ logHead' = Log("Smoothing profile set", "info")
    /\ UNCHANGED <<tracked, hold, pinchSince, calc>>
    /\ UNCHANGED pumpVars
    /\ UNCHANGED interpVars
    /\ UNCHANGED now

\* performance.now() advances, at most steps times.
Tick(steps) ==
    /\ now < ClockStepMs * (1 + steps)
    /\ now' = now + ClockStepMs
    /\ UNCHANGED <<last, tracked, hold, pinchSince, calc, logHead>>
    /\ UNCHANGED pumpVars
    /\ UNCHANGED interpVars
    /\ UNCHANGED config

AdvanceTime == Tick(MaxClockSteps)

\* A faulty timer callback, which leaves the click counter as it was.
ClickTimerFire_KeepsCount ==
    /\ clickTimeout # 0
    /\ now >= clickTimeout
    /\ State' = State
    /\ clickTimeout' = 0
    /\ last' = Did("clickTimer")
    /\ UNCHANGED <<tracked, hold, pinchSince, calc, logHead>>
    /\ UNCHANGED pumpVars
    /\ UNCHANGED <<gestureState, positionBuffer, config, now>>

\* The setTimeout callback of the double-click window runs.
ClickTimerFire ==
    /\ clickTimeout # 0
    /\ now >= clickTimeout
    /\ State' = [State EXCEPT !.clickCount = 0]
    /\ clickTimeout' = 0
    /\ last' = Did("clickTimer")
    /\ UNCHANGED <<tracked, hold, pinchSince, calc, logHead>>
    /\ UNCHANGED pumpVars
    /\ UNCHANGED <<gestureState, positionBuffer, config, now>>

\* ------------------------------------------------------------ specifications
NoHands == Detection(<<>>, <<>>)
OneHand(hand, label) == Detection(<<hand>>, <<<<label>>>>)

\* The detections the recognizer returns in Spec: no hand, an open hand, and
\* a hand without its handedness list.
PumpResults ==
    {NoHands, OneHand(OpenHand, "Right"), NoHandedness(OneHand(OpenHand, "Right"))}

\* The frame pump, the camera and the worker, with the interpreter run on
\* every reply; the clock stands still.
Next ==
    \/ InitWorkerCall
    \/ \E ok \in BOOLEAN : InitWorkerFetched(ok)
    \/ \E w \in Workers : WorkerInitStart(w)
    \/ \E w \in Workers, ok \in BOOLEAN : WorkerInitDone(w, ok)
    \/ \E w \in Workers, ok \in BOOLEAN : WorkerDetect(w, ok)
    \/ \E w \in Workers : WorkerMessage(w, PumpResults)
    \/ StartCamera
    \/ \E ok \in BOOLEAN : GetUserMediaDone(ok)
    \/ LoadedMetadata
    \/ StopCamera
    \/ SetVideoSource("camera-2")
    \/ \E l \in Loops : RafFire(l)
    \/ \E l \in Loops, ok \in BOOLEAN : BitmapDone(l, ok)

Spec == Init /\ [][Next]_vars

\* The interpreter on its own: the camera runs, the worker is ready, and the
\* replies of the worker are handled one after the other as they come, while
\* the clock advances, the double-click timer fires, the hand preference is
\* changed and the camera is stopped.
InterpResults ==
    {NullResult,
     NoHands,
     OneHand(OpenHand, "Right"),
     OneHand(PinchHand, "Right"),
     OneHand(MiddlePinchHand, "Right"),
     OneHand(BothPinchHand, "Right"),
     NoHandedness(OneHand(OpenHand, "Right"))}

\* A 'result' message arrives at worker.onmessage.
Deliver(result) ==
    /\ OnResult(result)
    /\ UNCHANGED <<isCameraActive, isWorkerReady, workerRef, requestRef, config,
                   loops, srcObject, metadataPending, gumPending, liveStreams,
                   workers, fetchPending, now>>

\* The state of Spec once initWorker and startCamera have completed.
RunningWith(n) ==
    /\ isCameraActive = TRUE
    /\ isWorkerReady = TRUE
    /\ isBusyRef = FALSE
    /\ workerRef = 1
    /\ requestRef = 1
    /\ config = InitConfig
    /\ gestureState = InitGestureState
    /\ State = InitState
    /\ positionBuffer = <<>>
    /\ clickTimeout = 0
    /\ now = ClockStepMs
    /\ loops = [l \in 1..n |-> IF l = 1 THEN "sched" ELSE "free"]
    /\ srcObject = TRUE
    /\ metadataPending = FALSE
    /\ gumPending = 0
    /\ liveStreams = 1
    /\ workers = [w \in Workers |->
                    IF w = 1 THEN [NoWorker EXCEPT !.st = "alive",
                                                   !.gestureRecognizer = TRUE]
                    ELSE NoWorker]
    /\ fetchPending = 0
    /\ last = NoOp
    /\ tracked = FALSE
    /\ hold = NoHold
    /\ pinchSince = 0
    /\ calc = NoCalc
    /\ logHead = Log("Camera started", "success")

Running == RunningWith(MaxLoops)

InterpNext ==
    \/ \E result \in InterpResults : Deliver(result)
    \/ AdvanceTime
    \/ ClickTimerFire
    \/ StopCamera

SpecInterp == Running /\ [][InterpNext]_vars

\* ------------------------------------------ specification: source change
\* The running application when the video source is changed: the device
\* grants every stream asked for, the video element reports its metadata,
\* and createImageBitmap settles.
VideoSources == {"camera-1", "camera-2"}

RestartNext ==
    \/ \E id \in VideoSources : SetVideoSource(id)
    \/ GetUserMediaDone(TRUE)
    \/ LoadedMetadata
    \/ \E l \in Loops : RafFire(l)
    \/ \E l \in Loops, ok \in BOOLEAN : BitmapDone(l, ok)
    \/ \E w \in Workers, ok \in BOOLEAN : WorkerDetect(w, ok)
    \/ \E w \in Workers : WorkerMessage(w, {NoHands})

RestartFairness ==
    /\ WF_vars(GetUserMediaDone(TRUE))
    /\ WF_vars(LoadedMetadata)
    /\ WF_vars(\E l \in Loops, ok \in BOOLEAN : BitmapDone(l, ok))

SpecRestart == Running /\ [][RestartNext]_vars /\ RestartFairness

\* ------------------------------------------ specification: short presses
\* The running application with a hand that opens and closes its index
\* pinch, over a time longer than the double-click window.
ClickResults == {OneHand(OpenHand, "Right"), OneHand(PinchHand, "Right")}

ClickNext ==
    \/ \E result \in ClickResults : Deliver(result)
    \/ Tick(MaxClickClockSteps)
    \/ ClickTimerFire

SpecClick == Running /\ [][ClickNext]_vars

\* ------------------------------------------- specification: acquisition
\* The camera from construction, while the worker is being set up: the
\* camera is started, stopped and its source changed, and the device grants
\* or refuses each stream.
AcquireNext ==
    \/ InitWorkerCall
    \/ \E ok \in BOOLEAN : InitWorkerFetched(ok)
    \/ \E w \in Workers : WorkerInitStart(w)
    \/ StartCamera
    \/ \E ok \in BOOLEAN : GetUserMediaDone(ok)
    \/ LoadedMetadata
    \/ StopCamera
    \/ \E id \in VideoSources : SetVideoSource(id)
    \/ \E l \in Loops : RafFire(l)

SpecAcquire == Init /\ [][AcquireNext]_vars

\* ------------------------------------------- specification: hand selection
\* The running application at one instant: replies with every arrangement of
\* hands, labels and missing parts, under each hand preference.
SelectResults ==
    {NullResult,
     NoHands,
     NoLandmarks(NoHands),
     OneHand(OpenHand, "Right"),
     OneHand(PinchHand, "Left"),
     Detection(<<OpenHand, PinchHand>>, <<<<"Left">>, <<"Right">>>>),
     Detection(<<OpenHand>>, <<<<>>>>),
     Detection(<<OpenHand>>, <<<<"Left">>, <<"Right">>>>),
     NoHandedness(OneHand(OpenHand, "Right")),
     OneHand(Without(OpenHand, 0), "Right"),
     OneHand(Without(OpenHand, 9), "Right"),
     OneHand(Without(OpenHand, 8), "Right"),
     OneHand(Without(OpenHand, 4), "Right"),
     OneHand(Without(OpenHand, 12), "Right")}

SelectNext ==
    \/ \E result \in SelectResults : Deliver(result)
    \/ \E h \in HandPreference : setHandPreference(h)
    \/ StopCamera

SpecSelect == Running /\ [][SelectNext]_vars

\* ----------------------------------------------- specification: smoothing
\* The running application at one instant: a hand whose index tip is at one
\* of two places, and the smoothing profile changed between frames.
SmoothResults == {OneHand(OpenHand, "Right"), OneHand(MovedHand, "Right")}

SmoothNext ==
    \/ \E result \in SmoothResults : Deliver(result)
    \/ \E p \in SmoothingProfile : setSmoothing(p)

SpecSmooth == Running /\ [][SmoothNext]_vars

\* ------------------------------------------------ floating-point arithmetic
\* JavaScript numbers are binary floating-point numbers: every +, - and /
\* returns the exact result rounded to the nearest number with a significand
\* of Precision bits, ties to even. A number is m * 2^e with
\* 2^(Precision-1) <= m < 2^Precision, or zero; only non-negative numbers
\* occur below, far from overflow and underflow.
FZero == [m |-> 0, e |-> 0]

RECURSIVE RoundQ(_, _, _)
\* The quotient n/d times 2^e, rounded.
RoundQ(n, d, e) ==
    IF n = 0 THEN FZero
    ELSE IF n >= d * 2^Precision THEN RoundQ(n, 2 * d, e + 1)
    ELSE IF n < d * 2^(Precision - 1) THEN RoundQ(2 * n, d, e - 1)
    ELSE LET q == n \div d
             r == n % d
             up == 2 * r > d \/ (2 * r = d /\ q % 2 = 1)
             m == IF up THEN q + 1 ELSE q
         IN  IF m = 2^Precision
             THEN [m |-> 2^(Precision - 1), e |-> e + 1]
             ELSE [m |-> m, e |-> e]

FNum(n) == RoundQ(n, 1, 0)

FOne == FNum(1)

FTwo == FNum(2)

FOneHalf == RoundQ(1, 2, 0)

\* The exact value of a in units of 2^e0, for e0 at most a.e.
Scaled(a, e0) == a.m * 2^(a.e - e0)

FAdd(a, b) ==
    LET e0 == Min(a.e, b.e)
    IN  RoundQ(Scaled(a, e0) + Scaled(b, e0), 1, e0)

\* a - b for a >= b.
FSub(a, b) ==
    LET e0 == Min(a.e, b.e)
    IN  RoundQ(Scaled(a, e0) - Scaled(b, e0), 1, e0)

FDiv(a, b) == RoundQ(a.m, b.m, a.e - b.e)

FLe(a, b) ==
    LET e0 == Min(a.e, b.e)
    IN  Scaled(a, e0) <= Scaled(b, e0)

\* Math.max(0, Math.min(1, x)) of a non-negative x.
FClamp(x) == IF FLe(FOne, x) THEN FOne ELSE x

\* The numbers of the study: every significand, in the binades below 1,
\* and 0 and 1.
FloatVals ==
    {[m |-> m, e |-> e] : m \in 2^(Precision - 1)..(2^Precision - 1),
                          e \in (0 - Precision - Binades + 1)..(0 - Precision)}
        \cup {FZero, FOne}

\* A faulty cursor mapping, which divides by half the ROI.
FMapAxis_HalfRoi(raw, effRoi) ==
    LET roiHalf == FDiv(effRoi, FTwo)
        roiMin == FSub(FOneHalf, roiHalf)
    IN  FClamp(FDiv(FSub(raw, roiMin), roiHalf))

\* Cursor mapping of one axis as the numbers compute it:
\* roiHalf = effRoi / 2; roiMin = 0.5 - roiHalf;
\* mapped = (raw - roiMin) / effRoi, clamped. For raw >= roiMin.
FMapAxis(raw, effRoi) ==
    LET roiHalf == FDiv(effRoi, FTwo)
        roiMin == FSub(FOneHalf, roiHalf)
    IN  FClamp(FDiv(FSub(raw, roiMin), effRoi))

\* The mapped point of an index tip: X is mirrored.
FMapCursor(indexTip, effRoi) ==
    <<FMapAxis(FSub(FOne, indexTip[1]), effRoi), FMapAxis(indexTip[2], effRoi)>>

RECURSIVE FSum(_, _, _)
\* positionBuffer.reduce((sum, p) => sum + p[axis], sum0), left to right.
FSum(buf, axis, sum0) ==
    IF buf = <<>> THEN sum0
    ELSE FSum(Tail(buf), axis, FAdd(sum0, Head(buf)[axis]))

\* avgX, avgY: the sum of the buffer divided by its length.
FMean(buf) ==
    <<FDiv(FSum(buf, 1, FZero), FNum(Len(buf))),
      FDiv(FSum(buf, 2, FZero), FNum(Len(buf)))>>

RECURSIVE PushTimes(_, _, _, _)
\* n frames in a row with the same mapped position p.
PushTimes(buf, p, smoothing, n) ==
    IF n = 0 THEN buf
    ELSE PushTimes(PushPosition(buf, p, smoothing), p, smoothing, n - 1)

\* ------------------------------------------- specification: effective ROI
\* The effective ROI of two hand scales under one base ROI.
Scales ==
    {k * ScaleStep : k \in 0..(MaxScale \div ScaleStep)}
        \cup {49, 50, 51, 119, 120, 121}

BaseRois == {100 * k : k \in 1..10} \cup {833, 834, 850}

RoiInit ==
    /\ Constructed
    /\ calc \in [fn : {"args"}, roi : BaseRois, a : Scales, b : Scales]

EffectiveRoiOf ==
    /\ calc.fn = "args"
    /\ calc' = [fn |-> "effRoi", roi |-> calc.roi, a |-> calc.a, b |-> calc.b,
                outA |-> EffectiveRoi(calc.roi, calc.a),
                outB |-> EffectiveRoi(calc.roi, calc.b)]

StudyUnchanged ==
    UNCHANGED <<isCameraActive, isWorkerReady, isBusyRef, workerRef,
                requestRef, config, gestureState, State, positionBuffer,
                clickTimeout, now, loops, srcObject, metadataPending,
                gumPending, liveStreams, workers, fetchPending, last, tracked,
                hold, pinchSince, logHead>>

RoiNext == EffectiveRoiOf /\ StudyUnchanged

SpecRoi == RoiInit /\ [][RoiNext]_vars

\* ------------------------------------------ specification: the centre
\* The cursor mapping of an index tip at the centre of the frame.
EffRois == FloatVals \ {FZero}

CentreInit ==
    /\ Constructed
    /\ calc \in [fn : {"args"}, effRoi : EffRois]

MapCentre ==
    /\ calc.fn = "args"
    /\ calc' = [fn |-> "centre", effRoi |-> calc.effRoi,
                out |-> FMapCursor(<<FOneHalf, FOneHalf>>, calc.effRoi)]

CentreNext == MapCentre /\ StudyUnchanged

SpecCentre == CentreInit /\ [][CentreNext]_vars

\* -------------------------------------------- specification: the smoothing
\* N frames with the same mapped position under a fixed profile, after
\* whatever the buffer held.
OtherPosition == <<FOne, FZero>>

PriorBuffers(s) ==
    {[i \in 1..k |-> OtherPosition] : k \in {0, 1, BUFFER_SIZE_MAP(s)}}

Ordinates == {FZero, FOne, RoundQ(1, 3, 0)}

MeanInit ==
    /\ Constructed
    /\ \E s \in SmoothingProfile : \E x \in FloatVals : \E y \in Ordinates :
       \E prior \in PriorBuffers(s) :
           calc = [fn |-> "args", smoothing |-> s, p |-> <<x, y>>,
                   prior |-> prior]

MeanOfSame ==
    /\ calc.fn = "args"
    /\ LET buf == PushTimes(calc.prior, calc.p, calc.smoothing,
                            BUFFER_SIZE_MAP(calc.smoothing))
       IN  calc' = [fn |-> "mean", smoothing |-> calc.smoothing, p |-> calc.p,
                    prior |-> calc.prior, buf |-> buf, out |-> FMean(buf)]

MeanNext == MeanOfSame /\ StudyUnchanged

SpecMean == MeanInit /\ [][MeanNext]_vars

\* ------------------------------------------ specification: restarts
\* The running application with room for a second loop closure and a
\* second stream: the camera is stopped, started and its source changed
\* while ticks are scheduled or suspended in createImageBitmap.
OverlapNext ==
    \/ StartCameraWithin(MaxOverlapStreams)
    \/ StopCamera
    \/ \E id \in VideoSources : SetVideoSourceWithin(id, MaxOverlapStreams)
    \/ \E ok \in BOOLEAN : GetUserMediaDone(ok)
    \/ LoadedMetadata
    \/ \E l \in Loops : RafFire(l)
    \/ \E l \in Loops, ok \in BOOLEAN : BitmapDone(l, ok)
    \/ \E w \in Workers, ok \in BOOLEAN : WorkerDetect(w, ok)
    \/ \E w \in Workers : WorkerMessage(w, {NoHands})

SpecOverlap == RunningWith(MaxOverlapLoops) /\ [][OverlapNext]_vars

\* ------------------------------------------ specification: a late start
\* The camera from construction, with room for a second stream: startCamera
\* is called, also a second time while the first call is awaiting the
\* stream, and stopCamera is called; startCamera is not called again after
\* stopCamera.
StopNext ==
    \/ InitWorkerCall
    \/ \E ok \in BOOLEAN : InitWorkerFetched(ok)
    \/ \E w \in Workers : WorkerInitStart(w)
    \/ StartCameraWithin(MaxOverlapStreams) /\ last.op # "stopCamera"
    \/ \E ok \in BOOLEAN : GetUserMediaDone(ok)
    \/ LoadedMetadata
    \/ StopCamera
    \/ \E l \in Loops : RafFire(l)

SpecStop == Init /\ [][StopNext]_vars

\* ------------------------------------------ specification: the worker
\* The running application while the worker is set up again: the pump posts
\* frames, initWorker replaces the worker, and each worker takes its
\* messages in order.
WorkerNext ==
    \/ InitWorkerCall
    \/ \E ok \in BOOLEAN : InitWorkerFetched(ok)
    \/ \E w \in Workers : WorkerInitStart(w)
    \/ \E w \in Workers, ok \in BOOLEAN : WorkerInitDone(w, ok)
    \/ \E w \in Workers, ok \in BOOLEAN : WorkerDetect(w, ok)
    \/ \E w \in Workers : WorkerMessage(w, {NoHands})
    \/ \E l \in Loops : RafFire(l)
    \/ \E l \in Loops, ok \in BOOLEAN : BitmapDone(l, ok)

SpecWorker == Running /\ [][WorkerNext]_vars

\* ------------------------------------------ specification: the frame pump
\* The running application with the camera active, the worker ready and
\* answering every request: every tick, frame capture, detection and reply
\* that can happen does happen.
PumpNext ==
    \/ \E l \in Loops : RafFire(l)
    \/ \E l \in Loops, ok \in BOOLEAN : BitmapDone(l, ok)
    \/ \E w \in Workers, ok \in BOOLEAN : WorkerDetect(w, ok)
    \/ \E w \in Workers : WorkerMessage(w, PumpResults)
    \/ \E h \in HandPreference : setHandPreference(h)

PumpFairness ==
    /\ WF_vars(\E l \in Loops : RafFire(l))
    /\ WF_vars(\E l \in Loops, ok \in BOOLEAN : BitmapDone(l, ok))
    /\ WF_vars(\E w \in Workers, ok \in BOOLEAN : WorkerDetect(w, ok))
    /\ WF_vars(\E w \in Workers : WorkerMessage(w, PumpResults))

SpecPump == Running /\ [][PumpNext]_vars /\ PumpFairness

\* ------------------------------------------ specification: the cursor
\* One frame handled with the index tip anywhere in the frame, under every
\* base ROI and smoothing profile, after a buffer of mapped points.
TipCoords == {k * TipStep : k \in 0..(1000 \div TipStep)}

CornerBuffers(s) ==
    {[i \in 1..k |-> c] : k \in {0, BUFFER_SIZE_MAP(s)},
                          c \in {<<0, 1000>>, <<1000, 0>>}}

CursorInit ==
    /\ Constructed
    /\ \E s \in SmoothingProfile : \E prior \in CornerBuffers(s) :
           calc \in [fn : {"args"}, tip : TipCoords \X TipCoords,
                     roi : BaseRois, smoothing : {s}, prior : {prior}]

CursorOf ==
    /\ calc.fn = "args"
    /\ LET hand == [OpenHand EXCEPT ![8] = calc.tip]
           cfg == [config EXCEPT !.roi = calc.roi,
                                 !.smoothing = calc.smoothing]
           h == handleResult(OneHand(hand, "Right"), now, cfg, gestureState,
                             State, calc.prior, clickTimeout)
       IN  calc' = [fn |-> "cursor", tip |-> calc.tip,
                    effRoi |-> h.gs.debugInfo.effectiveRoi,
                    mapped |-> h.buf[Len(h.buf)], buf |-> h.buf,
                    cursor |-> h.gs.cursor]

CursorNext == CursorOf /\ StudyUnchanged

SpecCursor == CursorInit /\ [][CursorNext]_vars

\* -------------------------------------------- the interaction bridge
\* document.elementFromPoint gives an element of the page or null.
Elements == {"canvas", "panel"}

NoElement == "null"

\* dispatchMouseEvent(type, x, y, target, buttons, button); branch names the
\* statement of processGestureInteraction that made the call.
MouseEvent(type, target, buttons, button, branch) ==
    [type |-> type, target |-> target, buttons |-> buttons,
     button |-> button, branch |-> branch]

\* A faulty bridge, which presses the left button on every DRAG_START.
processGestureInteraction_PressesAgain(dragTarget, middleDragTarget, state, target) ==
    IF ~state.cursor.active \/ target = NoElement
    THEN [dragTarget |-> dragTarget, middleDragTarget |-> middleDragTarget,
          dispatched |-> <<>>]
    ELSE
      LET events == state.events
          start == "DRAG_START" \in events
          drag1 == IF start THEN target ELSE dragTarget
          end == "DRAG_END" \in events /\ drag1 # NoElement
      IN  [dragTarget |-> IF end THEN NoElement ELSE drag1,
           middleDragTarget |-> middleDragTarget,
           dispatched |->
               (IF start THEN <<MouseEvent("mousedown", drag1, 1, 0, "DRAG_START")>>
                ELSE <<>>)
               \o (IF end THEN <<MouseEvent("mouseup", drag1, 0, 0, "DRAG_END")>>
                   ELSE <<>>)]

\* processGestureInteraction(state) on the module's dragTarget and
\* middleDragTarget, target being what elementFromPoint returns: the new
\* values of the two and the mouse events dispatched, in order.
processGestureInteraction(dragTarget, middleDragTarget, state, target) ==
    IF ~state.cursor.active \/ target = NoElement
    THEN [dragTarget |-> dragTarget, middleDragTarget |-> middleDragTarget,
          dispatched |-> <<>>]
    ELSE
      LET events == state.events
          currentButtons == (IF dragTarget # NoElement THEN 1 ELSE 0)
                            + (IF middleDragTarget # NoElement THEN 4 ELSE 0)
          start == "DRAG_START" \in events /\ dragTarget = NoElement
          drag1 == IF start THEN target ELSE dragTarget
          end == "DRAG_END" \in events /\ drag1 # NoElement
          middleStart == "DRAG_MIDDLE_START" \in events
                         /\ middleDragTarget = NoElement
          middle1 == IF middleStart THEN target ELSE middleDragTarget
          middleEnd == "DRAG_MIDDLE_END" \in events /\ middle1 # NoElement
      IN  [dragTarget |-> IF end THEN NoElement ELSE drag1,
           middleDragTarget |-> IF middleEnd THEN NoElement ELSE middle1,
           dispatched |->
               <<MouseEvent("mousemove", target, currentButtons, 0, "move")>>
               \o (IF "CLICK" \in events
                   THEN <<MouseEvent("mousedown", target, 1, 0, "CLICK"),
                          MouseEvent("mouseup", target, 0, 0, "CLICK"),
                          MouseEvent("click", target, 0, 0, "CLICK")>>
                   ELSE <<>>)
               \o (IF start THEN <<MouseEvent("mousedown", drag1, 1, 0, "DRAG_START")>>
                   ELSE <<>>)
               \o (IF end THEN <<MouseEvent("mouseup", drag1, 0, 0, "DRAG_END")>>
                   ELSE <<>>)
               \o (IF middleStart
                   THEN <<MouseEvent("mousedown", middle1, 4, 1, "DRAG_MIDDLE_START")>>
                   ELSE <<>>)
               \o (IF middleEnd
                   THEN <<MouseEvent("mouseup", middle1, 0, 1, "DRAG_MIDDLE_END")>>
                   ELSE <<>>)
               \o (IF "DOUBLE_CLICK" \in events
                   THEN <<MouseEvent("dblclick", target, 0, 0, "DOUBLE_CLICK")>>
                   ELSE <<>>)]

\* History of one button over the events dispatched: the element holding a
\* mousedown of the start branch not yet followed by a mouseup of the end
\* branch, and whether every such mousedown found the button up and every
\* such mouseup went to the element holding the mousedown.
RECURSIVE Replay(_, _, _, _)
Replay(down, dispatched, startBranch, endBranch) ==
    IF dispatched = <<>> THEN [down |-> down, ok |-> TRUE]
    ELSE
      LET e == Head(dispatched)
          rest == Tail(dispatched)
      IN  IF e.branch = startBranch
          THEN LET r == Replay(e.target, rest, startBranch, endBranch)
               IN  [down |-> r.down,
                    ok |-> r.ok /\ e.type = "mousedown" /\ down = NoElement]
          ELSE IF e.branch = endBranch
          THEN LET r == Replay(NoElement, rest, startBranch, endBranch)
               IN  [down |-> r.down,
                    ok |-> r.ok /\ e.type = "mouseup" /\ down # NoElement
                           /\ e.target = down]
          ELSE Replay(down, rest, startBranch, endBranch)

\* ------------------------------------------ specification: the bridge
\* processGestureInteraction called with any snapshot after any other: the
\* cursor active or not, any set of event flags, the point over any
\* element or none.
BridgeFlags ==
    {"CLICK", "DOUBLE_CLICK", "DRAG_START", "DRAG_END", "DRAG_MIDDLE_START",
     "DRAG_MIDDLE_END"}

Snapshots ==
    {[cursor |-> [active |-> a], events |-> ev] :
        a \in BOOLEAN, ev \in SUBSET BridgeFlags}

BridgeInit ==
    /\ Constructed
    /\ calc = [fn |-> "bridge", dragTarget |-> NoElement,
               middleDragTarget |-> NoElement,
               state |-> [cursor |-> [active |-> FALSE], events |-> {}],
               target |-> NoElement, dispatched |-> <<>>,
               leftDown |-> NoElement, middleDown |-> NoElement,
               alternates |-> TRUE]

BridgeCall ==
    /\ calc.fn = "bridge"
    /\ \E state \in Snapshots, target \in Elements \cup {NoElement} :
         LET r == processGestureInteraction(calc.dragTarget,
                                            calc.middleDragTarget, state, target)
             left == Replay(calc.leftDown, r.dispatched, "DRAG_START", "DRAG_END")
             middle == Replay(calc.middleDown, r.dispatched,
                              "DRAG_MIDDLE_START", "DRAG_MIDDLE_END")
         IN  calc' = [fn |-> "bridge", dragTarget |-> r.dragTarget,
                      middleDragTarget |-> r.middleDragTarget,
                      state |-> state, target |-> target,
                      dispatched |-> r.dispatched,
                      leftDown |-> left.down, middleDown |-> middle.down,
                      alternates |-> calc.alternates /\ left.ok /\ middle.ok]

BridgeNext == BridgeCall /\ StudyUnchanged

SpecBridge == BridgeInit /\ [][BridgeNext]_vars

\* --------------------------------------------------- specification: the log
\* addLog called again and again; the entry of a call is its number.
LogsOf(c) == IF c.fn = "addLog" THEN c.logs ELSE <<>>

CallsOf(c) == IF c.fn = "addLog" THEN c.calls ELSE 0

AddLogCall ==
    /\ CallsOf(calc) < MaxLogCalls
    /\ calc' = [fn |-> "addLog",
                logs |-> addLog(LogsOf(calc), CallsOf(calc) + 1),
                calls |-> CallsOf(calc) + 1]

LogNext == AddLogCall /\ StudyUnchanged

SpecLog == Init /\ [][LogNext]_vars

\* ------------------------------------------------------------ the properties
\* The step is worker.onmessage taking a 'result' reply of worker w.
ResultHandled(w) ==
    /\ workers[w].st = "alive"
    /\ workers[w].outbox # <<>>
    /\ Head(workers[w].outbox) \in {"result", "result-null"}
    /\ workers'[w].st = "alive"
    /\ workers'[w].outbox = Tail(workers[w].outbox)

\* The step posts a 'detect' request to worker w.
DetectPosted(w) == workers'[w].inbox = Append(workers[w].inbox, "detect")

\* The 'detect' requests posted to worker w that it has not yet answered.
InFlight(w) ==
    Cardinality({i \in 1..Len(workers[w].inbox) : workers[w].inbox[i] = "detect"})

\* The idle reset as the interaction bridge sees it.
IdleReset ==
    /\ ~gestureState.cursor.active
    /\ gestureState.events = {"IDLE"}

ZeroHands(result) ==
    /\ ~result.isNull
    /\ ~result.hasLandmarks \/ result.landmarks = <<>>

\* C1: over every interleaving of ticks, replies, stopCamera, startCamera
\* (and the restart of setVideoSource) and initWorker, the 'detect' requests
\* posted to the worker and not yet answered never number more than one.
C1_AtMostOneInFlight == \A w \in Workers : InFlight(w) <= 1

\* C2: a 'result' reply handled while the camera is not active leaves the
\* gesture state as it was, so cursor.active stays false.
C2_LateResultIgnored ==
    [][\A w \in Workers :
         ResultHandled(w) /\ ~isCameraActive => gestureState' = gestureState]_vars

\* C3: once the handler of a 'result' reply has run, whatever the reply
\* carried (a detection, null, data on which handleResult fails), the busy
\* flag is false.
C3_BusyClearedAfterResult ==
    [][\A w \in Workers : ResultHandled(w) => ~isBusyRef']_vars

\* C4: immediately after stopCamera, whatever the gesture state was,
\* cursor.active is false, events is exactly {IDLE} and the debug landmarks
\* are cleared.
C4_StopCameraResets ==
    last.op = "stopCamera" =>
        /\ ~gestureState.cursor.active
        /\ gestureState.events = {"IDLE"}
        /\ gestureState.debugInfo.landmarks = EmptyLandmarks

\* C5: after stopCamera no 'detect' request is posted until the camera is
\* active again, also when stopCamera ran while a tick was suspended in
\* createImageBitmap: a 'detect' is only ever posted with the camera active.
C5_NoDetectWhileStopped ==
    [][\A w \in Workers : DetectPosted(w) => isCameraActive]_vars

\* C6: a non-null result with zero hands, handled from any prior state,
\* leaves cursor.active false and events exactly {IDLE}.
C6_ZeroHandsIdleReset ==
    last.op = "result" /\ ZeroHands(last.result) => IdleReset

\* C6 witness: a zero-hands result has been handled in the middle of a drag.
C6_Witness ==
    /\ last.op = "result"
    /\ ZeroHands(last.result)
    /\ State.isDragging
    /\ IdleReset

\* C7: a null result resets the gesture state to idle (the pump's part of
\* the claim, the busy flag, is C3's).
C7_NullResultIdleReset == last.op = "null" => IdleReset

\* C8: under preference Left or Right a result in which no hand carries
\* that label yields the idle reset whatever its landmarks; under Both the
\* hand selected is hand index 0.
C8_HandFilter ==
    last.op = "result" =>
        /\ config.hand # "Both" /\ ~Qualifies(last.result, config.hand)
             => IdleReset
        /\ config.hand = "Both" /\ Qualifies(last.result, config.hand)
             => gestureState.debugInfo.landmarks = last.result.landmarks[1]

MissingParts(result, pref) ==
    /\ ~result.isNull
    /\ result.hasLandmarks
    /\ result.landmarks # <<>>
    /\ \/ ~result.hasHandednesses
       \/ /\ Qualifies(result, pref)
          /\ ~(LandmarkIdx \subseteq
                  DOMAIN result.landmarks[FirstQualifying(result, pref)])

\* C10: a detection with missing parts never makes the step fail: it is
\* handled as a result without qualifying hand and yields the idle reset.
C10_MalformedIdleReset ==
    last.op = "result" /\ MissingParts(last.result, config.hand) =>
        /\ ~last.threw
        /\ IdleReset

\* The event flags by the button they speak of.
ButtonFlags == {"CLICK", "DOUBLE_CLICK", "DRAG_START", "DRAG_MOVE", "DRAG_END"}

MiddleFlags == {"DRAG_MIDDLE_START", "DRAG_MIDDLE_MOVE", "DRAG_MIDDLE_END"}

PointerFlags == {"IDLE", "POINTER_MOVE"}

\* C11 as claimed: after every step at most one event flag is set.
C11_EventsExclusive == Cardinality(gestureState.events) <= 1

\* C11 as amended: after every step at most one flag of each group is set
\* (the button flags CLICK, DOUBLE_CLICK, DRAG_START, DRAG_MOVE, DRAG_END;
\* the middle flags DRAG_MIDDLE_START, DRAG_MIDDLE_MOVE, DRAG_MIDDLE_END; the
\* pointer flags IDLE, POINTER_MOVE); DRAG_MIDDLE_START and DRAG_MIDDLE_MOVE
\* are set alone, and DRAG_START and DRAG_MOVE never with a pointer flag.
C11_EventsExclusiveByGroup ==
    LET ev == gestureState.events
    IN  /\ ev \subseteq ButtonFlags \cup MiddleFlags \cup PointerFlags
        /\ Cardinality(ev \cap ButtonFlags) <= 1
        /\ Cardinality(ev \cap MiddleFlags) <= 1
        /\ Cardinality(ev \cap PointerFlags) <= 1
        /\ ev \cap {"DRAG_MIDDLE_START", "DRAG_MIDDLE_MOVE"} # {}
             => Cardinality(ev) = 1
        /\ ev \cap {"DRAG_START", "DRAG_MOVE"} # {} => ev \cap PointerFlags = {}

\* C11 witness: the release of a short press sets CLICK and POINTER_MOVE.
C11_Witness ==
    /\ last.op = "result"
    /\ gestureState.events = {"CLICK", "POINTER_MOVE"}

\* The step handles a detection (the other steps of the interpreter move
\* the clock, change the configuration or name themselves in last).
Handled ==
    /\ last'.op = "result"
    /\ now' = now
    /\ config' = config

\* The detection shows a processed hand with neither pinch.
Release(result) ==
    /\ Processed(result, config.hand)
    /\ ~IsPinchOf(SelectedHand(result, config.hand))
    /\ ~IsMiddlePinchOf(SelectedHand(result, config.hand))

\* An index pinch is on record that began less than HoldMs ago and did not
\* become a drag.
ShortPressOpen ==
    /\ State.dragStartTime > 0
    /\ ~State.isDragging
    /\ now - State.dragStartTime < HoldMs

\* C12: of two short presses (index pinch released within 200 ms, no drag
\* entered) whose releases are less than 300 ms apart, the first release
\* gives CLICK and opens the 300 ms window, the second gives DOUBLE_CLICK and
\* no CLICK.
C12_ClickThenDoubleClick ==
    [][Handled /\ Release(last'.result) /\ ShortPressOpen =>
         /\ clickTimeout = 0 =>
              /\ "CLICK" \in gestureState'.events
              /\ "DOUBLE_CLICK" \notin gestureState'.events
              /\ clickTimeout' = now + DoubleClickMs
         /\ clickTimeout # 0 /\ now < clickTimeout =>
              /\ "DOUBLE_CLICK" \in gestureState'.events
              /\ "CLICK" \notin gestureState'.events]_vars

\* C12 witness: the second release of two short presses has been handled
\* and reported as a double click.
C12_Witness ==
    /\ last.op = "result"
    /\ Release(last.result)
    /\ "DOUBLE_CLICK" \in gestureState.events
    /\ State.clickCount = 0

DragFlags == {"DRAG_START", "DRAG_MOVE", "DRAG_END"}

\* C13: during one uninterrupted index-pinch hold exactly one DRAG_START is
\* emitted, on the first step at which the hold has lasted at least 200 ms;
\* the steps of the hold before it emit no drag event, the steps after it
\* emit DRAG_MOVE.
C13_OneDragStartPerHold ==
    last.op = "result" /\ ~last.threw /\ hold.phase # "none" =>
        /\ hold.phase = "before" => gestureState.events \cap DragFlags = {}
        /\ hold.phase = "first" => gestureState.events \cap DragFlags = {"DRAG_START"}
        /\ hold.phase = "after" => gestureState.events \cap DragFlags = {"DRAG_MOVE"}

\* The last step handled a processed hand with middle pinch.
MiddlePinchStep ==
    /\ last.op = "result"
    /\ Processed(last.result, config.hand)
    /\ IsMiddlePinchOf(SelectedHand(last.result, config.hand))

\* C14: on every step where middle pinch is true, whatever the index pinch
\* and the drag flag are, the events are DRAG_MIDDLE_START or
\* DRAG_MIDDLE_MOVE alone (no DRAG_START, DRAG_MOVE, DRAG_END, CLICK,
\* DOUBLE_CLICK) and the mode is rotate.
C14_MiddlePinchPreempts ==
    MiddlePinchStep =>
        /\ gestureState.events \in {{"DRAG_MIDDLE_START"}, {"DRAG_MIDDLE_MOVE"}}
        /\ gestureState.cursor.mode = "rotate"

\* C14 witness: a step with both pinches true has been handled while a drag
\* was under way.
C14_Witness ==
    /\ MiddlePinchStep
    /\ IsPinchOf(SelectedHand(last.result, config.hand))
    /\ State.isDragging
    /\ gestureState.cursor.mode = "rotate"

\* The last step took the idle reset path of handleResult: a detection
\* without hands, or without a hand matching the preference.
HandLost ==
    /\ last.op = "result"
    /\ ~last.threw
    /\ ~Qualifies(last.result, config.hand)

\* C16: whenever the tracked hand is lost the interaction state is reset
\* (the smoothing buffer is empty, the index-drag and middle-drag flags are
\* false after that step); a step with a qualifying hand does not clear
\* the buffer.
C16_HandLossResetsInteraction ==
    /\ HandLost =>
         /\ positionBuffer = <<>>
         /\ ~State.isDragging
         /\ ~State.isMiddleDragging
    /\ last.op = "result" /\ Processed(last.result, config.hand)
         /\ 8 \in DOMAIN SelectedHand(last.result, config.hand)
         => positionBuffer # <<>>

\* The last step handled a processed hand that has its index tip.
CursorStep ==
    /\ last.op = "result"
    /\ Processed(last.result, config.hand)
    /\ 8 \in DOMAIN SelectedHand(last.result, config.hand)

\* C15: after every step with a qualifying hand the smoothing buffer holds
\* at most N mapped positions, N the size of the smoothing profile
\* configured at that step, whatever setSmoothing calls came between the
\* steps; and the cursor is the mean of exactly those positions.
C15_BufferWithinProfile ==
    CursorStep =>
        /\ Len(positionBuffer) <= BUFFER_SIZE_MAP(config.smoothing)
        /\ gestureState.cursor.x =
             ((SumX(positionBuffer) \div Len(positionBuffer)) * InnerWidth) \div 1000
        /\ gestureState.cursor.y =
             ((SumY(positionBuffer) \div Len(positionBuffer)) * InnerHeight) \div 1000

C20_LogNewestFirstCapped ==
    calc.fn = "addLog" =>
        /\ Len(calc.logs) = Min(LogCap, calc.calls)
        /\ \A i \in 1..Len(calc.logs) : calc.logs[i] = calc.calls - i + 1

\* C20 witness: more than 50 calls have been made and the log holds 50.
C20_Witness ==
    /\ calc.fn = "addLog"
    /\ calc.calls > LogCap
    /\ Len(calc.logs) = LogCap

\* |x - y| <= (num / den) * z, exactly.
FWithin(x, y, num, den, z) ==
    LET e0 == Min(Min(x.e, y.e), z.e)
        d == Scaled(x, e0) - Scaled(y, e0)
    IN  (IF d < 0 THEN 0 - d ELSE d) * den <= num * Scaled(z, e0)

C19_CentreFixed ==
    calc.fn = "centre" => calc.out = <<FOneHalf, FOneHalf>>

\* C19 amended: an index tip at (0.5, 0.5) maps to (0.5, 0.5) exactly for
\* every effective ROI of at least 0.5, and to within
\* 2^(-Precision) * (1 + 1/effRoi) of 0.5 on each axis for every effective
\* ROI.
C19_CentreFixedWithinRounding ==
    calc.fn = "centre" =>
        /\ FLe(FOneHalf, calc.effRoi) => calc.out = <<FOneHalf, FOneHalf>>
        /\ \A axis \in 1..2 :
               LET out == calc.out[axis]
                   e0 == Min(out.e, FOneHalf.e)
                   d == Scaled(out, e0) - Scaled(FOneHalf, e0)
                   D == IF d < 0 THEN 0 - d ELSE d
               IN  D * calc.effRoi.m * 2^Precision
                       <= (calc.effRoi.m + 2^(0 - calc.effRoi.e)) * 2^(0 - e0)

\* C19 witness: the centre was mapped under an effective ROI below 0.5 and
\* came out off the centre.
C19_Witness ==
    /\ calc.fn = "centre"
    /\ ~FLe(FOneHalf, calc.effRoi)
    /\ calc.out # <<FOneHalf, FOneHalf>>

\* C21: a 'detect' request is posted only to a worker whose initialization
\* has succeeded: after a failed initialization, for any sequence of
\* initWorker calls, the worker is not ready and the pump submits no frame.
C21_DetectOnlyToInitialized ==
    [][\A w \in Workers : DetectPosted(w) => workers[w].gestureRecognizer]_vars

\* The pump loop is running: a tick is scheduled or suspended.
PumpRunning == \E l \in Loops : loops[l] \in {"sched", "await"}

\* C22: setVideoSource with the camera active stops capture and starts it
\* again: the camera becomes inactive and a stream is asked for, and once
\* the device has granted it the camera is active again with the pump loop
\* running; with the camera inactive setVideoSource only records the source.
C22_SourceChangeRestarts ==
    /\ [][config'.videoSource # config.videoSource =>
            IF isCameraActive
            THEN /\ ~isCameraActive'
                 /\ requestRef' = 0
                 /\ ~srcObject'
                 /\ gumPending' = gumPending + 1
            ELSE UNCHANGED <<pumpVars, interpVars, now, last, tracked, hold,
                             calc>>]_vars
    /\ (gumPending > 0) ~> (isCameraActive /\ PumpRunning)

\* C22 witness: the source was changed while the camera ran, and the camera
\* is active again on a stream asked for since, with the pump loop running.
C22_Witness ==
    /\ config.videoSource \in VideoSources
    /\ last.op = "stopCamera"
    /\ isCameraActive
    /\ PumpRunning
    /\ liveStreams = 1

\* The step is the rejection of a getUserMedia call.
AcquisitionFailed ==
    /\ gumPending' < gumPending
    /\ liveStreams' = liveStreams

\* C23: when getUserMedia rejects, an error entry is added to the log, the
\* camera is not made active, the pump loop is not started, and no new
\* request for a stream is made.
C23_AcquisitionFailureReported ==
    [][AcquisitionFailed =>
         /\ logHead' = Log("Camera Error", "error")
         /\ isCameraActive' = isCameraActive
         /\ loops' = loops /\ requestRef' = requestRef
         /\ srcObject' = srcObject /\ metadataPending' = metadataPending
         /\ gumPending' = gumPending - 1]_vars

\* C23 witness: the only request for a stream was rejected; the error heads
\* the log, the camera is inactive and no tick is scheduled or suspended.
C23_Witness ==
    /\ logHead = Log("Camera Error", "error")
    /\ ~isCameraActive
    /\ gumPending = 0
    /\ \A l \in Loops : loops[l] = "free"

\* C24: on the step where DRAG_START is emitted the drag flag is set and
\* cursor.mode is 'drag', whatever the mode was on the previous step.
C24_DragStartSetsMode ==
    last.op = "result" /\ ~last.threw /\ "DRAG_START" \in gestureState.events =>
        /\ State.isDragging
        /\ gestureState.cursor.mode = "drag"

\* C25: DRAG_START is emitted only when the index pinch has been held
\* without a break for the 200 ms hold: the hold timer was started within
\* the run of steps with index pinch under way, at least 200 ms ago.
C25_DragStartOnlyAfterUnbrokenHold ==
    last.op = "result" /\ ~last.threw /\ "DRAG_START" \in gestureState.events =>
        /\ pinchSince # 0
        /\ State.dragStartTime >= pinchSince
        /\ now - State.dragStartTime >= HoldMs

ShortPressFlags == {"CLICK", "DOUBLE_CLICK"}

\* C26: a short press (CLICK or DOUBLE_CLICK) is emitted only on a step that
\* finds the index pinch released less than 200 ms after the step that
\* started the hold timer, with no drag entered for that pinch.
C26_ShortPressOnlyWithinHold ==
    [][Handled /\ ~last'.threw /\ gestureState'.events \cap ShortPressFlags # {} =>
         /\ Processed(last'.result, config.hand)
         /\ ~IsPinchOf(SelectedHand(last'.result, config.hand))
         /\ ~State.isDragging
         /\ State.dragStartTime > 0
         /\ now - State.dragStartTime < HoldMs]_vars

\* C27: a short press released more than 300 ms after the short press that
\* opened the double-click window, or after a DOUBLE_CLICK, or with no short
\* press before it, emits CLICK and no DOUBLE_CLICK, whether or not the
\* timer callback has run by then.
C27_LateSecondPressIsClick ==
    [][/\ Handled
       /\ Release(last'.result)
       /\ ShortPressOpen
       /\ clickTimeout = 0 \/ now > clickTimeout
       => /\ "CLICK" \in gestureState'.events
          /\ "DOUBLE_CLICK" \notin gestureState'.events]_vars

\* C28: on a step with a qualifying hand, middle pinch with the middle-drag
\* flag clear emits DRAG_MIDDLE_START and sets the flag; middle pinch with
\* the flag set emits DRAG_MIDDLE_MOVE; no middle pinch with the flag set
\* emits DRAG_MIDDLE_END and clears the flag; the mode is rotate exactly on
\* the steps with middle pinch.
C28_MiddlePinchTransitions ==
    [][Handled /\ ~last'.threw /\ Processed(last'.result, config.hand) =>
         LET middle == IsMiddlePinchOf(SelectedHand(last'.result, config.hand))
         IN  /\ middle /\ ~State.isMiddleDragging =>
                  /\ "DRAG_MIDDLE_START" \in gestureState'.events
                  /\ State'.isMiddleDragging
             /\ middle /\ State.isMiddleDragging =>
                  /\ "DRAG_MIDDLE_MOVE" \in gestureState'.events
                  /\ State'.isMiddleDragging
             /\ ~middle /\ State.isMiddleDragging =>
                  /\ "DRAG_MIDDLE_END" \in gestureState'.events
                  /\ ~State'.isMiddleDragging
             /\ gestureState'.cursor.mode = "rotate" <=> middle]_vars

\* C29: a step with a qualifying hand, no index pinch, no middle pinch and
\* the drag flag set emits DRAG_END and clears the drag flag and the hold
\* timer; an index pinch that finds the timer cleared starts a hold at the
\* time of its step and emits no DRAG_START.
C29_DragEndClearsHold ==
    [][Handled /\ ~last'.threw =>
         /\ Release(last'.result) /\ State.isDragging =>
              /\ "DRAG_END" \in gestureState'.events
              /\ ~State'.isDragging
              /\ State'.dragStartTime = 0
         /\ IndexHold(last'.result, config.hand)
              /\ Release(last.result) /\ "DRAG_END" \in gestureState.events =>
              /\ State'.dragStartTime = now
              /\ ~State'.isDragging
              /\ "DRAG_START" \notin gestureState'.events]_vars

\* C29 witness: the release of a drag has been handled.
C29_Witness ==
    /\ last.op = "result"
    /\ Release(last.result)
    /\ "DRAG_END" \in gestureState.events
    /\ ~State.isDragging
    /\ State.dragStartTime = 0

\* C30: on a step with a qualifying hand where neither pinch is active and
\* neither drag flag is set, the mode is 'none' and the step emits
\* POINTER_MOVE when cursor.active is true and IDLE otherwise.
C30_NoPinchPointerOrIdle ==
    /\ last.op = "result" /\ ~last.threw
    /\ Release(last.result)
    /\ ~State.isDragging /\ ~State.isMiddleDragging
    => /\ gestureState.cursor.mode = "none"
       /\ gestureState.events \cap PointerFlags =
              IF gestureState.cursor.active THEN {"POINTER_MOVE"} ELSE {"IDLE"}

\* C30 witness: a qualifying hand without its index tip was handled with
\* the cursor inactive, and the step emitted IDLE.
C30_Witness ==
    /\ last.op = "result" /\ ~last.threw
    /\ Release(last.result)
    /\ ~gestureState.cursor.active
    /\ gestureState.events = {"IDLE"}
    /\ gestureState.cursor.mode = "none"

\* C31: for every index-tip position and every effective ROI the mapped
\* point and the smoothed output lie in [0, 1] on both axes, so cursor.x is
\* within [0, viewport width] and cursor.y within [0, viewport height]; a
\* tip outside the ROI maps to the nearest edge.
C31_CursorInViewport ==
    calc.fn = "cursor" =>
        LET rawX == 1000 - calc.tip[1]
            rawY == calc.tip[2]
            Edge(raw, m) ==
                /\ 2 * raw <= 1000 - calc.effRoi => m = 0
                /\ 2 * raw >= 1000 + calc.effRoi => m = 1000
        IN  /\ \A i \in 1..Len(calc.buf) : \A axis \in 1..2 :
                   0 <= calc.buf[i][axis] /\ calc.buf[i][axis] <= 1000
            /\ Edge(rawX, calc.mapped[1]) /\ Edge(rawY, calc.mapped[2])
            /\ 0 <= calc.cursor.x /\ calc.cursor.x <= InnerWidth
            /\ 0 <= calc.cursor.y /\ calc.cursor.y <= InnerHeight
            /\ calc.cursor.active

\* C31 witness: an index tip beyond the ROI on both axes, on an empty
\* buffer, put the cursor in a corner of the viewport.
C31_Witness ==
    /\ calc.fn = "cursor"
    /\ calc.effRoi < 1000
    /\ calc.tip = <<0, 0>>
    /\ calc.cursor.x = InnerWidth /\ calc.cursor.y = 0

\* The step is worker w taking the 'detect' message at the head of its inbox.
DetectTaken(w) ==
    /\ workers[w].st = "alive" /\ workers'[w].st = "alive"
    /\ workers[w].inbox # <<>>
    /\ Head(workers[w].inbox) = "detect"
    /\ workers'[w].inbox = Tail(workers[w].inbox)

\* The step is worker w taking the 'init' message at the head of its inbox.
InitTaken(w) ==
    /\ workers[w].st = "alive" /\ workers'[w].st = "alive"
    /\ workers[w].inbox # <<>>
    /\ Head(workers[w].inbox) = "init"
    /\ workers'[w].inbox = Tail(workers[w].inbox)

\* The step is init() of worker w coming to its end.
InitEnded(w) ==
    /\ workers[w].st = "alive" /\ workers'[w].st = "alive"
    /\ workers[w].initRunning /\ ~workers'[w].initRunning

\* The step appends exactly the reply r to the outbox of worker w.
Replied(w, r) == workers'[w].outbox = Append(workers[w].outbox, r)

\* C32: a worker answers every 'detect' it takes with exactly one 'result'
\* message, null without a recognizer (and when recognition throws), and
\* every 'init' with exactly one of 'init-success' and 'init-error', posted
\* when init() ends; it posts nothing else.
C32_OneReplyPerMessage ==
    [][\A w \in Workers :
         /\ DetectTaken(w) =>
               /\ Replied(w, "result") \/ Replied(w, "result-null")
               /\ ~workers[w].gestureRecognizer => Replied(w, "result-null")
         /\ InitTaken(w) =>
               /\ ~workers[w].initRunning /\ workers'[w].initRunning
               /\ workers'[w].outbox = workers[w].outbox
         /\ InitEnded(w) =>
               /\ Replied(w, "init-success") \/ Replied(w, "init-error")
               /\ Replied(w, "init-success") <=> workers'[w].gestureRecognizer
         /\ workers[w].st = "alive" /\ workers'[w].st = "alive"
              /\ Len(workers'[w].outbox) > Len(workers[w].outbox) =>
               DetectTaken(w) \/ InitEnded(w)]_vars

\* C32 witness: a worker whose recognizer is not initialised has answered a
\* 'detect' with a null result, and its init() is still running.
C32_Witness ==
    \E w \in Workers :
        /\ workers[w].st = "alive"
        /\ ~workers[w].gestureRecognizer
        /\ workers[w].initRunning
        /\ workers[w].outbox = <<"result-null">>

\* C33: while the camera is active, the worker is ready and the worker
\* answers every request, a busy pump always becomes free again (the busy
\* flag is cleared after every reply and every failed frame capture), so
\* frames are submitted again and again.
C33_PumpNeverStuck == isBusyRef ~> ~isBusyRef

\* C34: over any run (steps with no hand, null results, middle-pinch
\* interruptions, camera stop) DRAG_START and DRAG_END strictly alternate,
\* beginning with DRAG_START, and so do DRAG_MIDDLE_START and
\* DRAG_MIDDLE_END: a step emits a start exactly when it sets the matching
\* drag flag, which was clear, an end exactly when it clears the flag, which
\* was set, and no other step changes the flags.
C34_StartAndEndAlternate ==
    [][IF Handled /\ ~last'.threw
       THEN /\ "DRAG_START" \in gestureState'.events
                 <=> ~State.isDragging /\ State'.isDragging
            /\ "DRAG_END" \in gestureState'.events
                 <=> State.isDragging /\ ~State'.isDragging
            /\ "DRAG_MIDDLE_START" \in gestureState'.events
                 <=> ~State.isMiddleDragging /\ State'.isMiddleDragging
            /\ "DRAG_MIDDLE_END" \in gestureState'.events
                 <=> State.isMiddleDragging /\ ~State'.isMiddleDragging
       ELSE /\ State'.isDragging = State.isDragging
            /\ State'.isMiddleDragging = State.isMiddleDragging
            /\ gestureState'.events = gestureState.events]_vars

\* C34 witness: a drag interrupted by a middle pinch has ended: one step
\* emitted DRAG_MIDDLE_END and DRAG_END and cleared both flags.
C34_Witness ==
    /\ last.op = "result"
    /\ {"DRAG_MIDDLE_END", "DRAG_END"} \subseteq gestureState.events
    /\ ~State.isDragging
    /\ ~State.isMiddleDragging

\* C35: between processing steps the click counter is 0 or 1, and it is 1
\* exactly when the 300 ms double-click timer is pending (set and neither
\* fired nor cancelled), however the timer callback interleaves with the
\* processing steps.
C35_ClickCountIsTimerPending ==
    /\ State.clickCount \in {0, 1}
    /\ State.clickCount = 1 <=> clickTimeout # 0

\* C35 witness: a second short press has cancelled the pending timer: the
\* double click is emitted, the counter is 0 and no timer is pending.
C35_Witness ==
    /\ last.op = "result"
    /\ "DOUBLE_CLICK" \in gestureState.events
    /\ State.clickCount = 0
    /\ State.clickTimer # 0
    /\ clickTimeout = 0

\* C36: after every processing step cursor.mode agrees with the interaction
\* flags: the mode is 'rotate' only if the middle-drag flag is set and
\* 'drag' only if the index-drag flag is set.
C36_ModeAgreesWithFlags ==
    last.op = "result" /\ ~last.threw /\ Processed(last.result, config.hand) =>
        /\ gestureState.cursor.mode = "rotate" => State.isMiddleDragging
        /\ gestureState.cursor.mode = "drag" => State.isDragging

\* The pump tick loops alive: a loop callback scheduled, or suspended in
\* createImageBitmap and about to schedule itself.
LoopsAlive == {l \in Loops : loops[l] \in {"sched", "await"}}

\* C37: over any sequence of startCamera, stopCamera and setVideoSource
\* calls, also a restart while a tick of the previous loop is suspended
\* awaiting the frame capture, at most one pump tick loop is alive.
C37_AtMostOneLoop == Cardinality(LoopsAlive) <= 1

\* C38: after stopCamera has returned and until startCamera is called again
\* the camera is not active, no pump loop runs and no stream is held, also
\* when a startCamera call was awaiting the stream or its metadata at the
\* stop; and overlapping startCamera calls leave at most one stream live.
C38_StoppedStaysStopped ==
    /\ last.op = "stopCamera" =>
         /\ ~isCameraActive
         /\ LoopsAlive = {}
         /\ ~srcObject
         /\ liveStreams = 0
    /\ liveStreams <= 1

\* C39: in the interaction bridge, over any sequence of snapshots, the
\* left-button mousedown and mouseup dispatched for DRAG_START and DRAG_END
\* strictly alternate, each mouseup going to the element that received the
\* mousedown before it, likewise the middle button with DRAG_MIDDLE_START
\* and DRAG_MIDDLE_END; and a snapshot with the cursor inactive dispatches
\* nothing.
C39_BridgeButtonsAlternate ==
    calc.fn = "bridge" =>
        /\ calc.alternates
        /\ ~calc.state.cursor.active => calc.dispatched = <<>>

\* C39 witness: a DRAG_END snapshot over one element has sent the mouseup to
\* the other element, the one that received the mousedown, although the
\* snapshot repeated DRAG_START.
C39_Witness ==
    /\ calc.fn = "bridge"
    /\ calc.state.cursor.active
    /\ {"DRAG_START", "DRAG_END"} \subseteq calc.state.events
    /\ calc.target = "panel"
    /\ \E i \in 1..Len(calc.dispatched) :
          /\ calc.dispatched[i].branch = "DRAG_END"
          /\ calc.dispatched[i].target = "canvas"
    /\ \A i \in 1..Len(calc.dispatched) : calc.dispatched[i].branch # "DRAG_START"
    /\ calc.leftDown = NoElement
====
